---- MODULE Spec2Model ----
(***************************************************************************)
(* Verification model of the cluster file set (package files, type Set)    *)
(* and of the version vectors it orders files by (package vc).             *)
(*                                                                         *)
(* Go slices are references.  A key, a stored file record and the file     *)
(* lists passed by callers share the backing array of a Version slice, and *)
(* vc.Inc writes into that array.  Version slices are therefore modelled   *)
(* as cells of a heap: a key or a record holds a cell reference, and the   *)
(* vector it denotes is heap[ref] at the time it is read.                  *)
(*                                                                         *)
(* The second half models the block puller (cmd/syncthing, type puller)    *)
(* that works on such a set: the block queue and its filler, the request   *)
(* slots, the table of open files, the requests in flight and the files on *)
(* disk.                                                                   *)
(***************************************************************************)
EXTENDS Integers, Sequences, FiniteSets, TLC

\* ------------------------------------------------------------------ bounds
\* Number of file-set calls in one behaviour.
MaxOps == 4
\* Wall-clock readings seen by vc.Inc range over 0..MaxTime.
MaxTime == 2
\* Number of I/O and network failures in one behaviour of the puller.
MaxFaults == 1
\* Number of need ticks that queue blocks in one behaviour of the puller.
MaxTicks == 2
\* Width of the integers that stand for int64.
IntBits == 6
\* Length of the Clocks compared and incremented.
MaxLen == 3
\* Number of increments chained one after the other.
MaxChain == 2

\* --------------------------------------------------------------- constants
LocalID == 0
FlagDeleted == 4096

\* The local node and two connected nodes, in the order of the remoteKey array.
Peers == {0, 1, 2}
PeerSeq == <<0, 1, 2>>
\* The peers that file-set calls are made for in the file-set specification.
Callers == {0, 1}
NameSeq == <<"a", "b">>
Names == {"a", "b"}
\* Version vectors delivered by peers and by the scanner.
InVersions == {<<1, 0>>, <<0, 1>>, <<1, 1>>}
Times == 0..MaxTime

\* ---------------------------------------------------------- version vectors
Lesser == -1
Equal == 0
Greater == 1
Conflicting == 2

\* The loop of Clock.CompareTo that keeps the first order it finds.
RECURSIVE CompareFrom_FirstWins(_, _, _, _)
CompareFrom_FirstWins(c, o, i, r) ==
    IF i > Len(c) THEN r
    ELSE IF r # Equal THEN r
    ELSE IF c[i] < o[i] THEN CompareFrom_FirstWins(c, o, i + 1, Lesser)
    ELSE IF c[i] > o[i] THEN CompareFrom_FirstWins(c, o, i + 1, Greater)
    ELSE CompareFrom_FirstWins(c, o, i + 1, r)

\* The loop of Clock.CompareTo from position i on, r being the order found
\* so far; both vectors have the same length.
RECURSIVE CompareFrom(_, _, _, _)
CompareFrom(c, o, i, r) ==
    IF i > Len(c) THEN r
    ELSE IF c[i] < o[i] /\ (r = Lesser \/ r = Equal) THEN CompareFrom(c, o, i + 1, Lesser)
    ELSE IF c[i] > o[i] /\ (r = Greater \/ r = Equal) THEN CompareFrom(c, o, i + 1, Greater)
    ELSE IF c[i] # o[i] THEN Conflicting
    ELSE CompareFrom(c, o, i + 1, r)

CompareTo(c, o) == CompareFrom(c, o, 1, Equal)

\* vc.Compare as the file set uses it: the zero key (nil Version) stands for
\* an absent entry and orders below every version.
Compare(a, b) ==
    IF Len(a) = Len(b) THEN CompareTo(a, b)
    ELSE IF Len(a) = 0 THEN Lesser
    ELSE IF Len(b) = 0 THEN Greater
    ELSE Conflicting

\* int64, scaled: IntBits bits instead of 64.
MaxInt64 == 2 ^ (IntBits - 1) - 1
MinInt64 == 0 - 2 ^ (IntBits - 1)

\* c[i]++ on an int64
Incremented(x) == IF x = MaxInt64 THEN MinInt64 ELSE x + 1

\* Clock.Inc on position i (0-based, as in Go) with wall-clock reading t.
Inc(c, i, t) ==
    [c EXCEPT ![i + 1] = IF c[i + 1] < t THEN t ELSE Incremented(c[i + 1])]

\* ------------------------------------------------------------------- maps
EmptyMap == <<>>
Has(m, k) == k \in DOMAIN m
Put(m, k, v) == [x \in (DOMAIN m) \cup {k} |-> IF x = k THEN v ELSE m[x]]
Del(m, k) == [x \in (DOMAIN m) \ {k} |-> m[x]]

\* bitset: av | 1<<i, and the test av & (1<<i) != 0
RECURSIVE Pow2(_)
Pow2(i) == IF i = 0 THEN 1 ELSE 2 * Pow2(i - 1)
BitSet(av, i) == (av \div Pow2(i)) % 2 = 1
\* av |= 1 << i that leaves av as it is.
OrBit_Same(av, i) == av
OrBit(av, i) == IF BitSet(av, i) THEN av ELSE av + Pow2(i)

\* ------------------------------------------------------------------ state
VARIABLES
    files,              \* Set.files: key string -> fileRecord
    remoteKey,          \* Set.remoteKey: peer -> name -> key (its Version cell)
    made,               \* peers whose remoteKey map has been made (is not nil)
    changes,            \* Set.changes
    globalAvailability, \* Set.globalAvailability
    globalKey,          \* Set.globalKey: name -> key (its Version cell)
    heap,               \* backing arrays of the Version slices
    mutex,              \* Set.Mutex: "unlocked" or "locked"
    call,               \* the last call made on the set, and what it returned
    ops                 \* number of calls made

VARIABLES
    world,              \* the scenario: its name and the number of request slots
    bq,                 \* puller.bq: the work items queued, in order
    filler,             \* the filler goroutine of puller.run: where it is, what it holds
    requestSlots,       \* puller.requestSlots: the slots in the channel
    requests,           \* the request goroutines started and not yet received from
    oustandingPerNode,  \* puller.oustandingPerNode
    openFiles,          \* puller.openFiles: name -> openFile
    temp,               \* temp files on disk: name -> (offset -> hash of the block there)
    dest,               \* destination files on disk: name -> hashes of its blocks
    connected,          \* the nodes of the connection map
    faults,             \* I/O and network failures still to come
    ticks,              \* need ticks that queued blocks
    ev                  \* what the last puller step did to a file

VARIABLES
    gor                 \* two goroutines calling the set at once: w mutates, r reads

VARIABLES
    model,              \* model2: the Model of the earlier file index (blocks, files, global)
    clk,                \* vc: two Clocks and what the last method called on them returned
    conman,             \* conman: the ConMan (cIDnodeID, nodeIDcID, conns, socks)
    fdc,                \* fdcache: readFiles, the readFile values, readFilesLock, the callers
    db,                 \* db: the local file entries and the sequence entries of one folder
    pick                \* one leastBusyNode call: its arguments and what it returned

svars == <<files, remoteKey, made, changes, globalAvailability, globalKey, heap>>
pvars == <<world, bq, filler, requestSlots, requests, oustandingPerNode, openFiles,
           temp, dest, connected, faults, ticks, ev>>
\* The variables of the other packages.
ovars == <<model, clk, conman, fdc, db, pick>>
vars == <<files, remoteKey, made, changes, globalAvailability, globalKey, heap,
          mutex, call, ops, gor, ovars, world, bq, filler, requestSlots, requests,
          oustandingPerNode, openFiles, temp, dest, connected, faults, ticks, ev,
          ovars>>

\* The zero key: no Version slice.
NoRef == 0

\* No call is in progress in either goroutine.
NoCalls == [w |-> [pc |-> "idle"], r |-> [pc |-> "idle"]]
ZeroFile == [Name |-> "", Flags |-> 0, Version |-> NoRef, Size |-> 0, Blocks |-> <<>>]

\* The file-set fields as one value, so that the unexported methods can be
\* written as functions from set to set.
TheSet == [files |-> files, remoteKey |-> remoteKey, made |-> made,
           globalAvailability |-> globalAvailability, globalKey |-> globalKey,
           heap |-> heap]

\* The vector a key denotes now.
Ver(s, ref) == IF ref = NoRef THEN <<>> ELSE s.heap[ref]
\* key.String(): the name and the vector as they read now.
KeyString(s, n, ref) == <<n, Ver(s, ref)>>
\* m.remoteKey[id][name], the zero key when absent.
RemoteRef(s, id, n) == IF Has(s.remoteKey[id], n) THEN s.remoteKey[id][n] ELSE NoRef
\* m.files[ks].File, the zero File when absent.
FileOf(s, ks) == IF Has(s.files, ks) THEN s.files[ks].File ELSE ZeroFile

keyNewerThan(s, a, b) == Compare(Ver(s, a), Ver(s, b)) = Greater
keyEquals(s, a, b) == Compare(Ver(s, a), Ver(s, b)) = Equal

AvOf(s, n) == IF Has(s.globalAvailability, n) THEN s.globalAvailability[n] ELSE 0

\* ------------------------------------------------------- unexported methods
\* Set.update with the global entry kept once a name has one: the case
\* fk.newerThan(gk) taken only for a name the global view does not hold yet.
updateFile_KeepGlobal(s, cid, f) ==
    LET n == f.Name
        fk == f.Version
        fks == KeyString(s, n, fk)
        remFiles == s.remoteKey[cid]
    IN  IF Has(remFiles, n) /\ keyEquals(s, remFiles[n], fk)
        THEN s
        ELSE
            LET files1 == IF ~Has(s.files, fks)
                          THEN Put(s.files, fks, [Usage |-> 1, File |-> f])
                          ELSE [s.files EXCEPT ![fks].Usage = @ + 1]
                s1 == [s EXCEPT !.remoteKey[cid] = Put(remFiles, n, fk),
                                !.files = files1]
                ok == Has(s.globalKey, n)
                gk == IF ok THEN s.globalKey[n] ELSE NoRef
            IN  IF ok /\ keyEquals(s, fk, gk)
                THEN [s1 EXCEPT !.globalAvailability = Put(@, n, OrBit(AvOf(s, n), cid))]
                ELSE IF ~ok /\ keyNewerThan(s, fk, gk)
                THEN [s1 EXCEPT !.globalKey = Put(@, n, fk),
                                !.globalAvailability = Put(@, n, Pow2(cid))]
                ELSE s1

\* Set.update without the skip of a file the peer already has.
updateFile_NoSkip(s, cid, f) ==
    LET n == f.Name
        fk == f.Version
        fks == KeyString(s, n, fk)
        remFiles == s.remoteKey[cid]
        files1 == IF ~Has(s.files, fks)
                  THEN Put(s.files, fks, [Usage |-> 1, File |-> f])
                  ELSE [s.files EXCEPT ![fks].Usage = @ + 1]
        s1 == [s EXCEPT !.remoteKey[cid] = Put(remFiles, n, fk),
                        !.files = files1]
        ok == Has(s.globalKey, n)
        gk == IF ok THEN s.globalKey[n] ELSE NoRef
    IN  IF ok /\ keyEquals(s, fk, gk)
        THEN [s1 EXCEPT !.globalAvailability = Put(@, n, OrBit(AvOf(s, n), cid))]
        ELSE IF keyNewerThan(s, fk, gk)
        THEN [s1 EXCEPT !.globalKey = Put(@, n, fk),
                        !.globalAvailability = Put(@, n, Pow2(cid))]
        ELSE s1

\* Set.update with a Conflicting version taking the global entry as a newer
\* one does.
updateFile_LastWins(s, cid, f) ==
    LET n == f.Name
        fk == f.Version
        fks == KeyString(s, n, fk)
        remFiles == s.remoteKey[cid]
    IN  IF Has(remFiles, n) /\ keyEquals(s, remFiles[n], fk)
        THEN s
        ELSE
            LET files1 == IF ~Has(s.files, fks)
                          THEN Put(s.files, fks, [Usage |-> 1, File |-> f])
                          ELSE [s.files EXCEPT ![fks].Usage = @ + 1]
                s1 == [s EXCEPT !.remoteKey[cid] = Put(remFiles, n, fk),
                                !.files = files1]
                ok == Has(s.globalKey, n)
                gk == IF ok THEN s.globalKey[n] ELSE NoRef
            IN  IF ok /\ keyEquals(s, fk, gk)
                THEN [s1 EXCEPT !.globalAvailability = Put(@, n, OrBit(AvOf(s, n), cid))]
                ELSE IF keyNewerThan(s, fk, gk)
                        \/ Compare(Ver(s, fk), Ver(s, gk)) = Conflicting
                THEN [s1 EXCEPT !.globalKey = Put(@, n, fk),
                                !.globalAvailability = Put(@, n, Pow2(cid))]
                ELSE s1

\* One iteration of the loop of Set.update, for file f.
updateFile(s, cid, f) ==
    LET n == f.Name
        fk == f.Version
        fks == KeyString(s, n, fk)
        remFiles == s.remoteKey[cid]
    IN  IF Has(remFiles, n) /\ keyEquals(s, remFiles[n], fk)
        THEN s
        ELSE
            LET files1 == IF ~Has(s.files, fks)
                          THEN Put(s.files, fks, [Usage |-> 1, File |-> f])
                          ELSE [s.files EXCEPT ![fks].Usage = @ + 1]
                s1 == [s EXCEPT !.remoteKey[cid] = Put(remFiles, n, fk),
                                !.files = files1]
                ok == Has(s.globalKey, n)
                gk == IF ok THEN s.globalKey[n] ELSE NoRef
            IN  IF ok /\ keyEquals(s, fk, gk)
                THEN [s1 EXCEPT !.globalAvailability = Put(@, n, OrBit(AvOf(s, n), cid))]
                ELSE IF keyNewerThan(s, fk, gk)
                THEN [s1 EXCEPT !.globalKey = Put(@, n, fk),
                                !.globalAvailability = Put(@, n, Pow2(cid))]
                ELSE s1

\* Set.update: the files of fs in order.
RECURSIVE update(_, _, _)
update(s, cid, fs) ==
    IF fs = <<>> THEN s
    ELSE update(updateFile(s, cid, Head(fs)), cid, Tail(fs))

\* The first loop of Set.replace: one usage less for every key of the peer,
\* looked up under the string the key has now.
releaseUsage(s, cid) ==
    LET released == {KeyString(s, n, s.remoteKey[cid][n]) : n \in DOMAIN s.remoteKey[cid]}
        kept == {ks \in DOMAIN s.files : ~(ks \in released /\ s.files[ks].Usage = 1)}
    IN  [ks \in kept |->
            IF ks \in released /\ s.files[ks].Usage > 1
            THEN [s.files[ks] EXCEPT !.Usage = @ - 1]
            ELSE s.files[ks]]

\* The inner loop of Set.replace for name n: the peers from position i of the
\* remoteKey array on, nk the newest key and na its availability so far.
RECURSIVE newest(_, _, _, _, _)
newest(s, n, i, nk, na) ==
    IF i > Len(PeerSeq) THEN <<nk, na>>
    ELSE
        LET p == PeerSeq[i]
            rem == s.remoteKey[p]
        IN  IF ~Has(rem, n) THEN newest(s, n, i + 1, nk, na)
            ELSE IF keyEquals(s, rem[n], nk) THEN newest(s, n, i + 1, nk, OrBit(na, p))
            ELSE IF keyNewerThan(s, rem[n], nk) THEN newest(s, n, i + 1, rem[n], Pow2(p))
            ELSE newest(s, n, i + 1, nk, na)

\* The recalculation looking at the map of the first peer only.
recalculate_FirstPeerOnly(s) ==
    LET had == {n \in DOMAIN s.globalKey : Has(s.remoteKey[PeerSeq[1]], n)}
    IN  [s EXCEPT !.globalKey = [n \in had |-> s.remoteKey[PeerSeq[1]][n]],
                  !.globalAvailability = [n \in had |-> Pow2(PeerSeq[1])]]

\* The second loop of Set.replace: the global view recalculated for every
\* name it holds.
recalculate(s) ==
    LET found == [n \in DOMAIN s.globalKey |-> newest(s, n, 1, NoRef, 0)]
        had == {n \in DOMAIN s.globalKey : found[n][2] # 0}
    IN  [s EXCEPT !.globalKey = [n \in had |-> found[n][1]],
                  !.globalAvailability = [n \in had |-> found[n][2]]]

\* Set.replace up to the new, empty map of the peer.
releaseAndClear(s, cid) ==
    [s EXCEPT !.files = releaseUsage(s, cid),
              !.remoteKey[cid] = EmptyMap,
              !.made = @ \cup {cid}]

\* Set.replace
replace(s, cid, fs) == update(recalculate(releaseAndClear(s, cid)), cid, fs)

\* Set.equals
equals(s, id, fs) ==
    /\ Cardinality(DOMAIN s.remoteKey[id]) = Len(fs)
    /\ \A i \in 1..Len(fs) :
          keyEquals(s, RemoteRef(s, id, fs[i].Name), fs[i].Version)

\* --------------------------------------------------------------- allocation
\* A file as a caller describes it: the Version is a vector, not yet a slice.
InFile(n, v) == [Name |-> n, Flags |-> 0, Version |-> v, Size |-> 1, Blocks |-> <<1>>]

\* The lowest cell not in use.
FreshRef(h) ==
    CHOOSE r \in 1..(Cardinality(DOMAIN h) + 1) :
        r \notin DOMAIN h /\ \A q \in 1..(r - 1) : q \in DOMAIN h

\* The caller builds its file list: every file gets a Version slice of its own.
RECURSIVE Alloc(_, _, _)
Alloc(h, in, acc) ==
    IF in = <<>> THEN <<h, acc>>
    ELSE
        LET r == FreshRef(h)
        IN  Alloc(Put(h, r, Head(in).Version), Tail(in),
                  Append(acc, [Head(in) EXCEPT !.Version = r]))

\* Cells that a key or a stored record still refers to; the others are garbage.
UsedRefs(s) ==
    UNION {{s.remoteKey[p][n] : n \in DOMAIN s.remoteKey[p]} : p \in Peers}
        \cup {s.globalKey[n] : n \in DOMAIN s.globalKey}
        \cup {s.files[ks].File.Version : ks \in DOMAIN s.files}

Collect(s) == [s EXCEPT !.heap = [r \in (UsedRefs(s) \ {NoRef}) |-> s.heap[r]]]

\* ----------------------------------------------------------- read methods
\* Need selecting every global name whose version the peer does not hold.
NeedNames_NotHeld(s, id) ==
    {n \in DOMAIN s.globalKey : ~keyEquals(s, s.globalKey[n], RemoteRef(s, id, n))}

\* The names Set.Need selects: the global key is newer than the peer's.
NeedNames(s, id) ==
    {n \in DOMAIN s.globalKey : keyNewerThan(s, s.globalKey[n], RemoteRef(s, id, n))}

\* Set.GetGlobal
GetGlobal(s, n) ==
    FileOf(s, KeyString(s, n, IF Has(s.globalKey, n) THEN s.globalKey[n] ELSE NoRef))

\* Set.Need; the order of the result is that of a Go map iteration and is
\* left out.
Need(s, id) == {GetGlobal(s, n) : n \in NeedNames(s, id)}

\* Set.Get
Get(s, id, n) == FileOf(s, KeyString(s, n, RemoteRef(s, id, n)))

\* Set.Have
Have(s, id) == {Get(s, id, n) : n \in DOMAIN s.remoteKey[id]}

\* Set.Availability
Availability(s, n) == AvOf(s, n)

\* ----------------------------------------------------------- ReplaceWithDelete
\* The loop that passes over the names whose record is a tombstone already.
RECURSIVE addDeleted_SkipsTombstones(_, _, _, _, _, _)
addDeleted_SkipsTombstones(s, id, nf, fs, i, ts) ==
    IF i > Len(NameSeq) THEN [set |-> s, fs |-> fs, panic |-> FALSE]
    ELSE
        LET n == NameSeq[i]
        IN  IF ~Has(s.remoteKey[LocalID], n) \/ n \in nf
            THEN addDeleted_SkipsTombstones(s, id, nf, fs, i + 1, ts)
            ELSE
                LET cf == FileOf(s, KeyString(s, n, s.remoteKey[LocalID][n]))
                IN  IF cf.Version = NoRef
                    THEN [set |-> s, fs |-> fs, panic |-> TRUE]
                    ELSE IF cf.Flags = FlagDeleted
                    THEN addDeleted_SkipsTombstones(s, id, nf, Append(fs, cf), i + 1, ts)
                    ELSE addDeleted_SkipsTombstones(
                            [s EXCEPT !.heap[cf.Version] = Inc(@, id, ts[n])], id, nf,
                            Append(fs, [cf EXCEPT !.Flags = FlagDeleted,
                                                  !.Blocks = <<>>,
                                                  !.Size = 0]),
                            i + 1, ts)

\* The loop of Set.ReplaceWithDelete over the local keys, from position i of
\* NameSeq on (Go visits the map in an order of its own; the iterations for
\* different names do not read each other's writes).  nf are the names of the
\* list passed in, ts the wall-clock reading of each vc.Inc.  vc.Inc on the
\* nil Version of a record that is no longer stored is an index out of range.
RECURSIVE addDeleted(_, _, _, _, _, _)
addDeleted(s, id, nf, fs, i, ts) ==
    IF i > Len(NameSeq) THEN [set |-> s, fs |-> fs, panic |-> FALSE]
    ELSE
        LET n == NameSeq[i]
        IN  IF ~Has(s.remoteKey[LocalID], n) \/ n \in nf
            THEN addDeleted(s, id, nf, fs, i + 1, ts)
            ELSE
                LET cf == FileOf(s, KeyString(s, n, s.remoteKey[LocalID][n]))
                IN  IF cf.Version = NoRef
                    THEN [set |-> s, fs |-> fs, panic |-> TRUE]
                    ELSE addDeleted(
                            [s EXCEPT !.heap[cf.Version] = Inc(@, id, ts[n])], id, nf,
                            Append(fs, [cf EXCEPT !.Flags = FlagDeleted,
                                                  !.Blocks = <<>>,
                                                  !.Size = 0]),
                            i + 1, ts)

FileNames(fs) == {fs[i].Name : i \in 1..Len(fs)}

\* ------------------------------------------------------------------ actions
Install(s) ==
    /\ files' = s.files
    /\ remoteKey' = s.remoteKey
    /\ made' = s.made
    /\ globalAvailability' = s.globalAvailability
    /\ globalKey' = s.globalKey
    /\ heap' = s.heap

\* m.changes[id]++
changesInc(ch, id) == [ch EXCEPT ![id] = @ + 1]

\* What the last call was: its method and peer, its list (in) and the length
\* of the list, whether the list gave the mapping the peer already had, and
\* whether it panicked.
Called(op, id, in, same, panic) ==
    call' = [op |-> op, id |-> id, in |-> in, len |-> Len(in), same |-> same,
             panic |-> panic]

\* Set.Replace(id, fs), fs built by the caller from `in`.
Replace(id, in) ==
    /\ mutex = "unlocked"
    /\ ops < MaxOps
    /\ LET a == Alloc(heap, in, <<>>)
           s0 == [TheSet EXCEPT !.heap = a[1]]
           fs == a[2]
           same == equals(s0, id, fs)
           run == Len(fs) = 0 \/ ~same
       IN  /\ Install(Collect(IF run THEN replace(s0, id, fs) ELSE s0))
           /\ changes' = IF run THEN changesInc(changes, id) ELSE changes
           /\ Called("Replace", id, in, same, FALSE)
    /\ ops' = ops + 1
    /\ UNCHANGED <<mutex, gor, pvars, ovars>>

\* Set.ReplaceWithDelete(id, fs), as the puller calls it after a walk.  ts
\* gives the wall-clock reading of the vc.Inc of each deleted name (0 for the
\* names that are not deleted, where nothing reads it).
ReplaceWithDelete(id, in, ts) ==
    /\ mutex = "unlocked"
    /\ ops < MaxOps
    /\ \A n \in Names : (n \in FileNames(in) \/ ~Has(remoteKey[LocalID], n)) => ts[n] = 0
    /\ LET a == Alloc(heap, in, <<>>)
           s0 == [TheSet EXCEPT !.heap = a[1]]
           fs == a[2]
           same == equals(s0, id, fs)
           run == Len(fs) = 0 \/ ~same
           d == addDeleted(s0, id, FileNames(fs), fs, 1, ts)
       IN  IF ~run
           THEN /\ Install(Collect(s0))
                /\ UNCHANGED <<changes, mutex>>
                /\ Called("ReplaceWithDelete", id, in, same, FALSE)
           ELSE IF d.panic
           THEN /\ Install(Collect(d.set))
                /\ changes' = changesInc(changes, id)
                /\ mutex' = "locked"
                /\ Called("ReplaceWithDelete", id, in, same, TRUE)
           ELSE /\ Install(Collect(replace(d.set, id, d.fs)))
                /\ changes' = changesInc(changes, id)
                /\ UNCHANGED mutex
                /\ Called("ReplaceWithDelete", id, in, same, FALSE)
    /\ ops' = ops + 1
    /\ UNCHANGED <<gor, pvars, ovars>>

\* Set.Update(id, fs).  The remoteKey maps are nil until the first replace:
\* storing into a nil map panics, with the mutex held.
UpdateWith(id, s0, fs, op) ==
    /\ mutex = "unlocked"
    /\ ops < MaxOps
    /\ LET same == equals(s0, id, fs)
           in == [i \in 1..Len(fs) |-> [fs[i] EXCEPT !.Version = Ver(s0, @)]]
       IN  IF id \notin s0.made /\ fs # <<>>
           THEN /\ Install(Collect(s0))
                /\ mutex' = "locked"
                /\ UNCHANGED changes
                /\ Called(op, id, in, same, TRUE)
           ELSE /\ Install(Collect(update(s0, id, fs)))
                /\ changes' = changesInc(changes, id)
                /\ UNCHANGED mutex
                /\ Called(op, id, in, same, FALSE)
    /\ ops' = ops + 1
    /\ UNCHANGED <<gor, pvars, ovars>>

Update(id, in) ==
    LET a == Alloc(heap, in, <<>>)
    IN  UpdateWith(id, [TheSet EXCEPT !.heap = a[1]], a[2], "Update")

\* The puller publishes a file that Need(local) returned: Update(local, [f])
\* with the stored record itself, Version slice included.
Publish(n) ==
    /\ n \in NeedNames(TheSet, LocalID)
    /\ GetGlobal(TheSet, n) # ZeroFile
    /\ UpdateWith(LocalID, TheSet, <<GetGlobal(TheSet, n)>>, "Publish")

\* The file lists callers pass: the empty list, file "a" in one of its
\* versions, or file "b".
InLists ==
    {<<>>}
        \cup {<<InFile("a", v)>> : v \in InVersions}
        \cup {<<InFile("b", <<1, 0>>)>>}

\* ================================================================== puller
\* ------------------------------------------------------------ files, blocks
\* scanner.Block; every block of the model is one unit long, the hash stands
\* for the data.
Block(o, h) == [Offset |-> o, Size |-> 1, Hash |-> h]
ZeroBlock == [Offset |-> 0, Size |-> 0, Hash |-> 0]
\* The hash of no data: what the block hasher returns for an empty file.
EmptyHash == 9
EmptyFileBlock == [Offset |-> 0, Size |-> 0, Hash |-> EmptyHash]

\* The block list of a file with the given hashes, in file order.
BlocksOf(hs) == [i \in 1..Len(hs) |-> Block(i - 1, hs[i])]
HashesOf(bs) == [i \in 1..Len(bs) |-> bs[i].Hash]

\* A file as a peer announces it.
PFile(n, v, flags, bs) ==
    [Name |-> n, Flags |-> flags, Version |-> v, Size |-> Len(bs), Blocks |-> bs]

\* The block hasher on the content of a file, given as the hash of each of
\* its blocks: an empty file hashes to the one block of no data.
Blocks(content) ==
    IF Len(content) = 0 THEN <<EmptyFileBlock>> ELSE BlocksOf(content)

\* What is read back from a temp file: the blocks written, and zeroes (hash
\* 0) in the holes between them.
TempContent(c) ==
    LET len == IF DOMAIN c = {} THEN 0
               ELSE 1 + CHOOSE o \in DOMAIN c : \A q \in DOMAIN c : q <= o
    IN  [i \in 1..len |-> IF (i - 1) \in DOMAIN c THEN c[i - 1] ELSE 0]

\* The block hashes of the destination file of name n; none when there is
\* no such file.
DestHashes(d, n) == IF Has(d, n) THEN HashesOf(Blocks(d[n])) ELSE <<>>

\* scanner.BlockDiff: the blocks of tgt whose hash is somewhere in src, with
\* the offset they have in src, and the other blocks of tgt in file order.
SrcOffset(src, h) ==
    src[CHOOSE i \in 1..Len(src) :
            src[i].Hash = h /\ \A j \in 1..(i - 1) : src[j].Hash # h].Offset

RECURSIVE BlockDiffFrom(_, _, _, _, _)
BlockDiffFrom(src, tgt, i, have, need) ==
    IF i > Len(tgt) THEN [have |-> have, need |-> need]
    ELSE IF \E j \in 1..Len(src) : src[j].Hash = tgt[i].Hash
    THEN BlockDiffFrom(src, tgt, i + 1,
                       Append(have, [tgt[i] EXCEPT !.Offset = SrcOffset(src, tgt[i].Hash)]),
                       need)
    ELSE BlockDiffFrom(src, tgt, i + 1, have, Append(need, tgt[i]))

BlockDiff(src, tgt) == BlockDiffFrom(src, tgt, 1, <<>>, <<>>)

\* The block queue: an entry (file, have, need) becomes one copy item when
\* there are blocks to copy, one item for each needed block, and one empty
\* item when there is neither; the final item of the file is flagged last.
Items(f, have, need) ==
    LET copy == IF have = <<>> THEN <<>>
                ELSE <<[file |-> f, copy |-> have, block |-> ZeroBlock,
                        last |-> need = <<>>]>>
        fetch == [i \in 1..Len(need) |->
                     [file |-> f, copy |-> <<>>, block |-> need[i],
                      last |-> i = Len(need)]]
        empty == IF have = <<>> /\ need = <<>>
                 THEN <<[file |-> f, copy |-> <<>>, block |-> ZeroBlock, last |-> TRUE]>>
                 ELSE <<>>
    IN  copy \o fetch \o empty

\* ------------------------------------------------------ connection map
\* cid.Map: the connected nodes by name, in the order Names() lists them.
NodeSeq == <<"A", "B">>
NodeId == [A |-> 1, B |-> 2]
NoNode == ""
NodeKeys == {"A", "B", NoNode}

\* leastBusyNode that takes a node of the same usage as the lowest so far.
RECURSIVE leastBusyFrom_LastWins(_, _, _, _, _, _)
leastBusyFrom_LastWins(m, availability, cm, i, low, selected) ==
    IF i > Len(NodeSeq) THEN selected
    ELSE
        LET node == NodeSeq[i]
            id == NodeId[node]
        IN  IF node \notin cm \/ id = LocalID
            THEN leastBusyFrom_LastWins(m, availability, cm, i + 1, low, selected)
            ELSE IF BitSet(availability, id) /\ m[node] <= low
            THEN leastBusyFrom_LastWins(m, availability, cm, i + 1, m[node], node)
            ELSE leastBusyFrom_LastWins(m, availability, cm, i + 1, low, selected)

\* activityMap.leastBusyNode: the loop from position i of cm.Names() on.
RECURSIVE leastBusyFrom(_, _, _, _, _, _)
leastBusyFrom(m, availability, cm, i, low, selected) ==
    IF i > Len(NodeSeq) THEN selected
    ELSE
        LET node == NodeSeq[i]
            id == NodeId[node]
        IN  IF node \notin cm \/ id = LocalID
            THEN leastBusyFrom(m, availability, cm, i + 1, low, selected)
            ELSE IF BitSet(availability, id) /\ m[node] < low
            THEN leastBusyFrom(m, availability, cm, i + 1, m[node], node)
            ELSE leastBusyFrom(m, availability, cm, i + 1, low, selected)

\* The node leastBusyNode returns ("" when there is none), and the activity
\* map it leaves.
leastBusyNode(m, availability, cm) ==
    LET selected == leastBusyFrom(m, availability, cm, 1, 2147483647, NoNode)
    IN  [node |-> selected, m |-> [m EXCEPT ![selected] = @ + 1]]

\* ------------------------------------------------------------ puller state
\* The zero openFile.
ZeroOpen == [availability |-> 0, err |-> FALSE, outstanding |-> 0, done |-> FALSE]
NoItem == [file |-> ZeroFile, copy |-> <<>>, block |-> ZeroBlock, last |-> FALSE]
\* What the last step did to a file: published it (Update(local, [f]) was
\* called) or abandoned it, on which path, and whether the temp file had been
\* hashed again and every hash found equal to the expected one.
\* ev.result: the requestResult the step received, if it received one, with
\* what the request had returned.
NoResult == [node |-> "", name |-> "", outcome |-> ""]
NoEvent == [kind |-> "none", path |-> "", name |-> "", file |-> ZeroFile,
            verified |-> FALSE, result |-> NoResult]
Event(kind, path, f, verified) ==
    [kind |-> kind, path |-> path, name |-> f.Name, file |-> f, verified |-> verified,
     result |-> NoResult]

\* The puller, its file set and the disk as one value, so that the handlers
\* can be written as functions.
ThePuller ==
    [set |-> TheSet, changes |-> changes, bq |-> bq, requestSlots |-> requestSlots,
     requests |-> requests, oustandingPerNode |-> oustandingPerNode,
     openFiles |-> openFiles, temp |-> temp, dest |-> dest, ev |-> NoEvent]

\* p.requestSlots <- true
release(p) == [p EXCEPT !.requestSlots = @ + 1]

\* p.model.fs.Update(cid.LocalID, []scanner.File{f})
fsUpdate(p, f) ==
    [p EXCEPT !.set = Collect(update(p.set, LocalID, <<f>>)),
              !.changes[LocalID] = @ + 1]

\* The I/O and network failures a step can meet.  "none": every operation of
\* the step succeeds.
BlockFaults == {"none", "create", "copy-open", "copy-read", "copy-write", "rename", "remove"}
ResultFaults == {"none", "write", "open-temp", "rename"}
Outcomes == {"ok", "bad", "err"}

\* The loop of handleCopyBlock from block i of b.copy on: c is the temp file,
\* d the existing destination file.  Reading past the end of d fails.
RECURSIVE copyFrom(_, _, _, _, _)
copyFrom(c, d, blocks, i, fault) ==
    IF i > Len(blocks) THEN [temp |-> c, err |-> FALSE]
    ELSE
        LET o == blocks[i].Offset
        IN  IF o >= Len(d) \/ (fault = "copy-read" /\ i = 1)
            THEN [temp |-> c, err |-> TRUE]
            ELSE IF fault = "copy-write" /\ i = 1
            THEN [temp |-> c, err |-> TRUE]
            ELSE copyFrom(Put(c, o, d[o + 1]), d, blocks, i + 1, fault)

\* puller.handleCopyBlock
handleCopyBlock(p, b, fault) ==
    LET n == b.file.Name
        of == p.openFiles[n]
    IN  IF fault = "copy-open" \/ ~Has(p.dest, n)
        THEN [p EXCEPT !.openFiles[n] = [of EXCEPT !.err = TRUE]]
        ELSE
            LET r == copyFrom(p.temp[n], p.dest[n], b.copy, 1, fault)
            IN  [p EXCEPT !.temp[n] = r.temp,
                          !.openFiles[n] = [of EXCEPT !.err = r.err]]

\* handleRequestBlock giving the request slot back as soon as the request is
\* sent.
handleRequestBlock_FreesSlot(p, b, cm) ==
    LET f == b.file
        n == f.Name
        of == p.openFiles[n]
        lb == leastBusyNode(p.oustandingPerNode, of.availability, cm)
        p1 == [p EXCEPT !.oustandingPerNode = lb.m]
    IN  IF lb.node = NoNode
        THEN release(p1)
        ELSE release([p1 EXCEPT !.openFiles[n] = [of EXCEPT !.outstanding = @ + 1],
                                !.requests = Append(@, [node |-> lb.node, file |-> f,
                                                        offset |-> b.block.Offset,
                                                        hash |-> b.block.Hash])])

\* puller.handleRequestBlock; cm is the connection map.
handleRequestBlock(p, b, cm) ==
    LET f == b.file
        n == f.Name
        of == p.openFiles[n]
        lb == leastBusyNode(p.oustandingPerNode, of.availability, cm)
        p1 == [p EXCEPT !.oustandingPerNode = lb.m]
    IN  IF lb.node = NoNode
        THEN release(p1)
        ELSE [p1 EXCEPT !.openFiles[n] = [of EXCEPT !.outstanding = @ + 1],
                        !.requests = Append(@, [node |-> lb.node, file |-> f,
                                                offset |-> b.block.Offset,
                                                hash |-> b.block.Hash])]

\* puller.handleEmptyBlock
handleEmptyBlock(p, b, fault) ==
    LET f == b.file
        n == f.Name
        p1 == IF f.Flags = FlagDeleted
              THEN [p EXCEPT !.temp = Del(@, n),
                             !.dest = IF fault = "remove" THEN @ ELSE Del(@, n)]
              ELSE IF fault = "rename" \/ ~Has(p.temp, n)
              THEN p
              ELSE [p EXCEPT !.dest = Put(@, n, TempContent(p.temp[n])),
                             !.temp = Del(@, n)]
        p2 == [p1 EXCEPT !.openFiles = Del(@, n)]
    IN  [fsUpdate(p2, f) EXCEPT !.ev = Event("publish", "empty", f, FALSE)]

\* handleBlock that returns on an item of a file that has already failed
\* without giving the slot back.
handleBlock_FailedKeepsSlot(p, b, fault, cm) ==
    LET f == b.file
        n == f.Name
        ok == Has(p.openFiles, n)
    IN  IF ~ok /\ fault = "create"
        THEN release([p EXCEPT !.openFiles = Put(@, n, [ZeroOpen EXCEPT !.err = TRUE])])
        ELSE
            LET of == [(IF ok THEN p.openFiles[n] ELSE ZeroOpen) EXCEPT !.done = b.last]
                p0 == IF ok THEN p ELSE [p EXCEPT !.temp = Put(@, n, <<>>)]
            IN  IF of.err
                THEN IF b.last THEN [p0 EXCEPT !.openFiles = Del(@, n)] ELSE p0
                ELSE
                    LET p1 == [p0 EXCEPT !.openFiles =
                                  Put(@, n, [of EXCEPT !.availability = Availability(p.set, n)])]
                    IN  IF Len(b.copy) > 0 THEN release(handleCopyBlock(p1, b, fault))
                        ELSE IF b.block.Size > 0 THEN handleRequestBlock(p1, b, cm)
                        ELSE release(handleEmptyBlock(p1, b, fault))

\* puller.handleBlock
handleBlock(p, b, fault, cm) ==
    LET f == b.file
        n == f.Name
        ok == Has(p.openFiles, n)
    IN  IF ~ok /\ fault = "create"
        THEN release([p EXCEPT !.openFiles = Put(@, n, [ZeroOpen EXCEPT !.err = TRUE])])
        ELSE
            LET of == [(IF ok THEN p.openFiles[n] ELSE ZeroOpen) EXCEPT !.done = b.last]
                p0 == IF ok THEN p ELSE [p EXCEPT !.temp = Put(@, n, <<>>)]
            IN  IF of.err
                THEN release(IF b.last THEN [p0 EXCEPT !.openFiles = Del(@, n)] ELSE p0)
                ELSE
                    LET p1 == [p0 EXCEPT !.openFiles =
                                  Put(@, n, [of EXCEPT !.availability = Availability(p.set, n)])]
                    IN  IF Len(b.copy) > 0 THEN release(handleCopyBlock(p1, b, fault))
                        ELSE IF b.block.Size > 0 THEN handleRequestBlock(p1, b, cm)
                        ELSE release(handleEmptyBlock(p1, b, fault))

\* The failure a handleBlock call can meet, given what the call will do.
BlockFaultApplies(p, b, fault) ==
    LET n == b.file.Name
        ok == Has(p.openFiles, n)
        failed == ok /\ p.openFiles[n].err
    IN  CASE fault = "none" -> TRUE
          [] fault = "create" -> ~ok
          [] fault \in {"copy-open", "copy-read", "copy-write"} ->
                ~failed /\ Len(b.copy) > 0 /\ Has(p.dest, n)
          [] fault = "rename" ->
                ~failed /\ Len(b.copy) = 0 /\ b.block.Size = 0 /\ b.file.Flags # FlagDeleted
          [] fault = "remove" ->
                ~failed /\ Len(b.copy) = 0 /\ b.block.Size = 0 /\ b.file.Flags = FlagDeleted
          [] OTHER -> FALSE

\* The hashes hb of the temp file are those of the block list bs.
Matches(hb, bs) ==
    /\ Len(hb) = Len(bs)
    /\ \A i \in 1..Len(hb) : hb[i].Hash = bs[i].Hash

\* The completion renaming and publishing without comparing the hashes.
complete_NoVerify(p, f, fault) ==
    LET n == f.Name
        hb == Blocks(TempContent(p.temp[n]))
        p1 == [p EXCEPT !.openFiles = Del(@, n), !.temp = Del(@, n)]
        abandoned == [p1 EXCEPT !.ev = Event("abandon", "fetch", f, FALSE)]
    IN  IF fault = "open-temp" THEN abandoned
        ELSE IF fault = "rename" THEN abandoned
        ELSE [fsUpdate([p1 EXCEPT !.dest = Put(@, n, TempContent(p.temp[n]))], f)
                 EXCEPT !.ev = Event("publish", "fetch", f, Matches(hb, f.Blocks))]

\* The completion that, on a mismatch, returns before the entry of the
\* open-file table is deleted.
complete_KeepsEntry(p, f, fault) ==
    LET n == f.Name
        hb == Blocks(TempContent(p.temp[n]))
        p1 == [p EXCEPT !.openFiles = Del(@, n), !.temp = Del(@, n)]
        abandoned == [p1 EXCEPT !.ev = Event("abandon", "fetch", f, FALSE)]
        mismatch == [p EXCEPT !.temp = Del(@, n),
                              !.ev = Event("mismatch", "fetch", f, FALSE)]
    IN  IF fault = "open-temp" THEN abandoned
        ELSE IF ~Matches(hb, f.Blocks) THEN mismatch
        ELSE IF fault = "rename" THEN abandoned
        ELSE [fsUpdate([p1 EXCEPT !.dest = Put(@, n, TempContent(p.temp[n]))], f)
                 EXCEPT !.ev = Event("publish", "fetch", f, Matches(hb, f.Blocks))]

\* The completion of handleRequestResult, lines 175-219: the temp file is
\* closed, hashed again and, when every hash is the expected one, renamed
\* and published.  The temp file is removed whatever happens.
complete(p, f, fault) ==
    LET n == f.Name
        hb == Blocks(TempContent(p.temp[n]))
        p1 == [p EXCEPT !.openFiles = Del(@, n), !.temp = Del(@, n)]
        abandoned == [p1 EXCEPT !.ev = Event("abandon", "fetch", f, FALSE)]
        mismatch == [p1 EXCEPT !.ev = Event("mismatch", "fetch", f, FALSE)]
    IN  IF fault = "open-temp" THEN abandoned
        ELSE IF Len(hb) # Len(f.Blocks) THEN mismatch
        ELSE IF \E i \in 1..Len(hb) : hb[i].Hash # f.Blocks[i].Hash THEN mismatch
        ELSE IF fault = "rename" THEN abandoned
        ELSE [fsUpdate([p1 EXCEPT !.dest = Put(@, n, TempContent(p.temp[n]))], f)
                 EXCEPT !.ev = Event("publish", "fetch", f, Matches(hb, f.Blocks))]

\* The step received res, whose request had returned outcome.
received(p, res, outcome) ==
    [p EXCEPT !.ev.result = [node |-> res.node, name |-> res.file.Name,
                             outcome |-> outcome]]

\* handleRequestResult with the decrease of the node's count after the test
\* of the open-file table: a result for a file that is gone or has failed
\* leaves the count as it is.
handleRequestResult_DecreaseLate(p, res, outcome, fault) ==
    LET f == res.file
        n == f.Name
    IN  IF ~Has(p.openFiles, n) \/ p.openFiles[n].err
        THEN received(p, res, outcome)
        ELSE
            LET p0 == [p EXCEPT !.oustandingPerNode[res.node] = @ - 1]
                of == p0.openFiles[n]
                written == IF fault = "write" \/ outcome = "err" \/ ~Has(p0.temp, n)
                           THEN p0.temp
                           ELSE [p0.temp EXCEPT ![n] =
                                    Put(@, res.offset, IF outcome = "ok" THEN res.hash ELSE 0)]
                of1 == [of EXCEPT !.err = (fault = "write"), !.outstanding = @ - 1]
                p1 == [p0 EXCEPT !.temp = written, !.openFiles[n] = of1]
            IN  received(IF of1.done /\ of1.outstanding = 0
                         THEN complete(p1, f, fault)
                         ELSE p1, res, outcome)

\* puller.handleRequestResult.  outcome is what the request returned: the
\* data asked for, other data, or an error and no data (res.err is not
\* read: the data, none on an error, is written whatever it is).
handleRequestResult(p, res, outcome, fault) ==
    LET f == res.file
        n == f.Name
        p0 == [p EXCEPT !.oustandingPerNode[res.node] = @ - 1]
    IN  IF ~Has(p0.openFiles, n) \/ p0.openFiles[n].err
        THEN received(p0, res, outcome)
        ELSE
            LET of == p0.openFiles[n]
                written == IF fault = "write" \/ outcome = "err" \/ ~Has(p0.temp, n)
                           THEN p0.temp
                           ELSE [p0.temp EXCEPT ![n] =
                                    Put(@, res.offset, IF outcome = "ok" THEN res.hash ELSE 0)]
                of1 == [of EXCEPT !.err = (fault = "write"), !.outstanding = @ - 1]
                p1 == [p0 EXCEPT !.temp = written, !.openFiles[n] = of1]
            IN  received(IF of1.done /\ of1.outstanding = 0
                         THEN complete(p1, f, fault)
                         ELSE p1, res, outcome)

\* The failure a handleRequestResult call can meet.
ResultFaultApplies(p, res, fault) ==
    LET n == res.file.Name
        live == Has(p.openFiles, n) /\ ~p.openFiles[n].err
        last == live /\ p.openFiles[n].done /\ p.openFiles[n].outstanding = 1
    IN  CASE fault = "none" -> TRUE
          [] fault = "write" -> live
          [] fault \in {"open-temp", "rename"} -> last
          [] OTHER -> FALSE

\* The loop of puller.queueNeededBlocks for the file of name n: what
\* p.bq.put adds to the queue.
queuedFor(s, n) ==
    LET f == GetGlobal(s, n)
        lf == Get(s, LocalID, f.Name)
        d == BlockDiff(lf.Blocks, f.Blocks)
    IN  Items(f, d.have, d.need)

RECURSIVE queuedFrom(_, _, _)
queuedFrom(s, sq, i) ==
    IF i > Len(sq) THEN <<>> ELSE queuedFor(s, sq[i]) \o queuedFrom(s, sq, i + 1)

\* puller.queueNeededBlocks: the files of Need(local) in the order sq.
queueNeededBlocks(p, sq) == [p EXCEPT !.bq = @ \o queuedFrom(p.set, sq, 1)]

\* The orders in which a Go map iteration can visit the names S.
Orders(S) ==
    {sq \in [1..Cardinality(S) -> S] : \A n \in S : \E i \in DOMAIN sq : sq[i] = n}

\* ------------------------------------------------------------- scenarios
\* What the local node and the two connected nodes hold when the puller
\* starts, what is on disk, and the number of request slots.
\*   S6:    two files of three blocks each, nothing of them here yet
\*   S5:    a file whose new version moves two blocks and brings a new one
\*   copy:  a file whose new version only reorders the blocks we have
\*   empty: a file that became empty and a file that was deleted
Worlds ==
    {[name |-> "S6", slots |-> 2,
      local |-> <<>>,
      remote |-> <<PFile("a", <<0, 1>>, 0, BlocksOf(<<1, 2, 3>>)),
                   PFile("b", <<0, 1>>, 0, BlocksOf(<<4, 5, 6>>))>>,
      disk |-> EmptyMap],
     [name |-> "S5", slots |-> 2,
      local |-> <<PFile("a", <<1, 0>>, 0, BlocksOf(<<1, 2, 3>>))>>,
      remote |-> <<PFile("a", <<1, 1>>, 0, BlocksOf(<<2, 4, 1>>))>>,
      disk |-> [a |-> <<1, 2, 3>>]],
     [name |-> "copy", slots |-> 1,
      local |-> <<PFile("a", <<1, 0>>, 0, BlocksOf(<<1, 2>>))>>,
      remote |-> <<PFile("a", <<1, 1>>, 0, BlocksOf(<<2, 1>>))>>,
      disk |-> [a |-> <<1, 2>>]],
     [name |-> "empty", slots |-> 1,
      local |-> <<PFile("a", <<1, 0>>, 0, BlocksOf(<<1>>)),
                  PFile("b", <<1, 0>>, 0, BlocksOf(<<1>>))>>,
      remote |-> <<PFile("a", <<1, 1>>, 0, <<EmptyFileBlock>>),
                   PFile("b", <<1, 1>>, FlagDeleted, <<>>)>>,
      disk |-> [a |-> <<1>>, b |-> <<1>>]]}

NoWorld == [name |-> "", slots |-> 0, local |-> <<>>, remote |-> <<>>, disk |-> EmptyMap]

\* NewSet()
NewSet ==
    [files |-> EmptyMap, remoteKey |-> [p \in Peers |-> EmptyMap], made |-> {},
     globalAvailability |-> EmptyMap, globalKey |-> EmptyMap, heap |-> EmptyMap]

\* Replace(id, in) on set s, the list built by the caller from `in`.
Replaced(s, id, in) ==
    LET a == Alloc(s.heap, in, <<>>)
    IN  Collect(replace([s EXCEPT !.heap = a[1]], id, a[2]))

\* The file set of a scenario: the local index loaded, then the index of
\* each connected node received.
WorldSet(w) ==
    Replaced(Replaced(Replaced(NewSet, LocalID, w.local), 1, w.remote), 2, w.remote)

\* ----------------------------------------------------------- puller steps
InstallPuller(p) ==
    /\ Install(p.set)
    /\ changes' = p.changes
    /\ bq' = p.bq
    /\ requestSlots' = p.requestSlots
    /\ requests' = p.requests
    /\ oustandingPerNode' = p.oustandingPerNode
    /\ openFiles' = p.openFiles
    /\ temp' = p.temp
    /\ dest' = p.dest
    /\ ev' = p.ev

\* The filler goroutine of puller.run: <-p.requestSlots
FillerSlot ==
    /\ filler.pc = "slot"
    /\ requestSlots > 0
    /\ \E p \in {[ThePuller EXCEPT !.requestSlots = @ - 1]} : InstallPuller(p)
    /\ filler' = [filler EXCEPT !.pc = "get"]
    /\ UNCHANGED <<mutex, call, ops, gor, ovars, world, connected, faults, ticks>>

\* The filler goroutine: b := p.bq.get()
FillerGet ==
    /\ filler.pc = "get"
    /\ bq # <<>>
    /\ \E p \in {[ThePuller EXCEPT !.bq = Tail(@)]} : InstallPuller(p)
    /\ filler' = [pc |-> "send", b |-> Head(bq)]
    /\ UNCHANGED <<mutex, call, ops, gor, ovars, world, connected, faults, ticks>>

\* puller.run, case b := <-p.blocks: the filler hands its block over.
HandleBlock(fault) ==
    /\ filler.pc = "send"
    /\ BlockFaultApplies(ThePuller, filler.b, fault)
    /\ fault # "none" => faults > 0
    /\ \E p \in {handleBlock(ThePuller, filler.b, fault, connected)} : InstallPuller(p)
    /\ filler' = [pc |-> "slot", b |-> NoItem]
    /\ faults' = IF fault = "none" THEN faults ELSE faults - 1
    /\ UNCHANGED <<mutex, call, ops, gor, ovars, world, connected, ticks>>

\* The sequence sq without its element i.
Without(sq, i) == [j \in 1..(Len(sq) - 1) |-> IF j < i THEN sq[j] ELSE sq[j + 1]]

\* puller.run, case res := <-p.requestResults: request i has returned.  A
\* node that is no longer connected returns an error.
HandleRequestResult(i, outcome, fault) ==
    /\ i \in 1..Len(requests)
    /\ LET res == requests[i]
           up == res.node \in connected
           cost == (IF up /\ outcome # "ok" THEN 1 ELSE 0)
                       + (IF fault # "none" THEN 1 ELSE 0)
       IN  /\ ~up => outcome = "err"
           /\ ResultFaultApplies(ThePuller, res, fault)
           /\ cost <= faults
           /\ faults' = faults - cost
           /\ \E q \in {release([ThePuller EXCEPT !.requests = Without(@, i)])} :
                 \E p \in {handleRequestResult(q, res, outcome, fault)} :
                    InstallPuller(p)
    /\ UNCHANGED <<mutex, call, ops, gor, ovars, world, connected, filler, ticks>>

\* puller.run, case <-needTicker, with no file open and files needed.
NeedTick(sq) ==
    /\ openFiles = EmptyMap
    /\ ticks < MaxTicks
    /\ sq \in Orders(NeedNames(TheSet, LocalID))
    /\ sq # <<>>
    /\ bq' = queueNeededBlocks(ThePuller, sq).bq
    /\ ticks' = ticks + 1
    /\ ev' = NoEvent
    /\ UNCHANGED <<svars, mutex, call, ops, gor, ovars, world, connected, filler, faults,
                   requestSlots, requests, oustandingPerNode, openFiles, temp, dest>>

\* A connected node goes away.
Disconnect(node) ==
    /\ node \in connected
    /\ faults > 0
    /\ connected' = connected \ {node}
    /\ faults' = faults - 1
    /\ ev' = NoEvent
    /\ UNCHANGED <<svars, mutex, call, ops, gor, ovars, world, bq, filler, requestSlots, requests,
                   oustandingPerNode, openFiles, temp, dest, ticks>>

\* No puller: the state of the puller variables in the file-set specification.
PullerIdle ==
    /\ world = NoWorld
    /\ bq = <<>>
    /\ filler = [pc |-> "slot", b |-> NoItem]
    /\ requestSlots = 0
    /\ requests = <<>>
    /\ oustandingPerNode = [n \in NodeKeys |-> 0]
    /\ openFiles = EmptyMap
    /\ temp = EmptyMap
    /\ dest = EmptyMap
    /\ connected = {}
    /\ faults = 0
    /\ ticks = 0
    /\ ev = NoEvent

\* ================================================================== model2
\* The earlier file index, package model: a key is the name, the modification
\* time, the version and the flags of a file, and the block store is keyed by
\* the whole key.
Key(n, mod, ver) == [Name |-> n, Modified |-> mod, Version |-> ver, Flags |-> 0]
ZeroKey == [Name |-> "", Modified |-> 0, Version |-> 0, Flags |-> 0]

\* Model{}: every map is nil.
NewModel ==
    [blocks |-> EmptyMap, files |-> [p \in Peers |-> EmptyMap], made |-> {},
     global |-> EmptyMap, calls |-> 0, panicked |-> FALSE]

\* FileKey.NewerThan
NewerThan(a, b) ==
    \/ a.Modified > b.Modified
    \/ a.Modified = b.Modified /\ a.Version > b.Version

\* Model.unlockedAddRemote on a peer whose map has been made.
RECURSIVE unlockedAddRemote(_, _, _)
unlockedAddRemote(m, cid, fs) ==
    IF fs = <<>> THEN m
    ELSE
        LET f == Head(fs)
            n == f.Name
            fm == m.files[cid]
            ck == IF Has(fm, n) THEN fm[n] ELSE ZeroKey
            ok == Has(m.global, n)
            gf == IF ok THEN m.global[n] ELSE [key |-> ZeroKey, availability |-> 0]
            blocks1 == IF ~Has(m.blocks, f) THEN Put(m.blocks, f, 1)
                       ELSE [m.blocks EXCEPT ![f] = @ + 1]
            global1 == IF ok /\ f.Version = gf.key.Version /\ f.Modified = gf.key.Modified
                       THEN Put(m.global, n, [gf EXCEPT !.availability = OrBit(@, cid)])
                       ELSE IF NewerThan(f, gf.key)
                       THEN Put(m.global, n, [key |-> f, availability |-> Pow2(cid)])
                       ELSE m.global
        IN  IF ck.Version = f.Version /\ ck.Modified = f.Modified
            THEN unlockedAddRemote(m, cid, Tail(fs))
            ELSE unlockedAddRemote(
                    [m EXCEPT !.files[cid] = Put(fm, n, f), !.blocks = blocks1,
                              !.global = global1],
                    cid, Tail(fs))

\* The inner loop of Model.unlockedSetRemote for name n, from position i of
\* the files array on.
RECURSIVE latest(_, _, _, _)
latest(m, n, i, gf) ==
    IF i > Len(PeerSeq) THEN gf
    ELSE
        LET p == PeerSeq[i]
            rem == m.files[p]
        IN  IF Has(rem, n) /\ NewerThan(rem[n], gf.key)
            THEN latest(m, n, i + 1, [key |-> rem[n], availability |-> Pow2(p)])
            ELSE IF Has(rem, n) /\ rem[n] = gf.key
            THEN latest(m, n, i + 1, [gf EXCEPT !.availability = OrBit(@, p)])
            ELSE latest(m, n, i + 1, gf)

\* Model.unlockedSetRemote
unlockedSetRemote(m, cid, fs) ==
    LET held == {m.files[cid][n] : n \in DOMAIN m.files[cid]}
        kept == {k \in DOMAIN m.blocks : ~(k \in held /\ m.blocks[k] = 1)}
        m1 == [m EXCEPT !.blocks = [k \in kept |-> IF k \in held THEN m.blocks[k] - 1
                                                   ELSE m.blocks[k]],
                        !.files[cid] = EmptyMap,
                        !.made = @ \cup {cid}]
        found == [n \in DOMAIN m1.global |->
                     latest(m1, n, 1, [key |-> ZeroKey, availability |-> 0])]
        had == {n \in DOMAIN m1.global : found[n].key # ZeroKey}
    IN  unlockedAddRemote([m1 EXCEPT !.global = [n \in had |-> found[n]]], cid, fs)

\* The lists of the test of the package, the empty list and lists of one file.
ModelLists ==
    {<<Key("a", 1000, 0), Key("b", 1000, 0), Key("c", 1000, 0), Key("d", 1000, 0)>>,
     <<Key("a", 1000, 0), Key("b", 1001, 0), Key("c", 1000, 1), Key("e", 1000, 0)>>,
     <<>>, <<Key("a", 1000, 0)>>, <<Key("a", 1001, 0)>>, <<Key("b", 1000, 1)>>}

\* Model.SetLocal (cid 0) and Model.SetRemote
SetRemote(cid, fs) ==
    /\ ~model.panicked
    /\ model.calls < MaxOps
    /\ model' = [unlockedSetRemote(model, cid, fs) EXCEPT !.calls = @ + 1]
    /\ UNCHANGED <<svars, mutex, call, ops, gor, pvars, clk, conman, fdc, db, pick>>

\* Model.AddLocal (cid 0) and Model.AddRemote.  Storing into the nil map of a
\* peer that was never set panics, with the mutex held.
AddRemote(cid, fs) ==
    /\ ~model.panicked
    /\ model.calls < MaxOps
    /\ model' = IF cid \notin model.made /\ fs # <<>>
                THEN [model EXCEPT !.calls = @ + 1, !.panicked = TRUE]
                ELSE [unlockedAddRemote(model, cid, fs) EXCEPT !.calls = @ + 1]
    /\ UNCHANGED <<svars, mutex, call, ops, gor, pvars, clk, conman, fdc, db, pick>>

NextModel ==
    \/ \E cid \in Callers, fs \in ModelLists : SetRemote(cid, fs)
    \/ \E cid \in Callers, fs \in ModelLists : AddRemote(cid, fs)

\* ====================================================================== vc
\* The counters the Clocks are built from: small ones and the largest int64.
Counters == {0, 1, MaxInt64}
Clocks(len) == [1..len -> Counters]
NoClocks == [op |-> "none", a |-> <<>>, b |-> <<>>, i |-> 0, r |-> Equal, n |-> 0]

\* Clock.IncCopy with wall-clock reading t.
IncCopy(c, i, t) == Inc(c, i, t)

\* A caller makes two Clocks of the same length.
NewClocks(a, b) ==
    /\ clk.op = "none"
    /\ clk' = [op |-> "new", a |-> a, b |-> b, i |-> 0, r |-> Equal, n |-> 0]
    /\ UNCHANGED <<svars, mutex, call, ops, gor, pvars, model, conman, fdc, db, pick>>

\* r := a.CompareTo(b)
DoCompareTo ==
    /\ clk.op = "new"
    /\ clk' = [clk EXCEPT !.op = "CompareTo", !.r = CompareTo(clk.a, clk.b)]
    /\ UNCHANGED <<svars, mutex, call, ops, gor, pvars, model, conman, fdc, db, pick>>

\* b := a.IncCopy(i) at wall-clock reading t, and r := b.CompareTo(a)
DoIncCopy(i, t) ==
    /\ clk.op \in {"new", "a = b"}
    /\ i < Len(clk.a)
    /\ LET b == IncCopy(clk.a, i, t)
       IN  clk' = [clk EXCEPT !.op = "IncCopy", !.b = b, !.i = i,
                              !.r = CompareTo(b, clk.a)]
    /\ UNCHANGED <<svars, mutex, call, ops, gor, pvars, model, conman, fdc, db, pick>>

\* a = b, the next link of a chain of increments
Chain ==
    /\ clk.op = "IncCopy"
    /\ clk.n < MaxChain
    /\ clk' = [clk EXCEPT !.op = "a = b", !.a = clk.b, !.n = @ + 1]
    /\ UNCHANGED <<svars, mutex, call, ops, gor, pvars, model, conman, fdc, db, pick>>

NextVc ==
    \/ \E len \in 1..MaxLen : \E a \in Clocks(len), b \in Clocks(len) : NewClocks(a, b)
    \/ DoCompareTo
    \/ \E i \in 0..(MaxLen - 1), t \in Counters : DoIncCopy(i, t)
    \/ Chain

\* ------------------------------------------------------------------ conman
\* The indexes of cIDnodeID, conns and socks.
CidSlots == 0..63
\* The empty node id, and no connection.
NoName == 0
NoConn == 0
\* Bounds of the connections made: how many in all, and how many of them by
\* a node id that has connected before.
MaxConns == 65
MaxDups == 1

\* A ConMan before the first connection.  Node ids are numbered from 1 (a
\* non-empty string each); connection and socket k are those of the k-th
\* AddConnection call.  dups counts the calls made with a node id seen
\* before.
NewConMan ==
    [cIDnodeID |-> [i \in CidSlots |-> NoName], nodeIDcID |-> EmptyMap,
     conns |-> [i \in CidSlots |-> NoConn], socks |-> [i \in CidSlots |-> NoConn],
     count |-> 0, dups |-> 0]

\* ConMan.newCid, the loop from slot i on: the ConMan after it and the id
\* returned.
RECURSIVE newCidFrom(_, _, _)
newCidFrom(c, nodeID, i) ==
    IF i >= 64 THEN <<c, 0>>
    ELSE IF c.cIDnodeID[i] = NoName
    THEN <<[c EXCEPT !.cIDnodeID[i] = nodeID, !.nodeIDcID = Put(@, nodeID, i)], i>>
    ELSE newCidFrom(c, nodeID, i + 1)

newCid(c, nodeID) == newCidFrom(c, nodeID, 1)

\* ConMan.AddConnection(sock, conn) with conn.ID() = nodeID.
AddConnection(nodeID) ==
    /\ conman.count < MaxConns
    /\ \/ nodeID = conman.count + 1
       \/ nodeID \in DOMAIN conman.nodeIDcID /\ conman.dups < MaxDups
    /\ LET r == newCid(conman, nodeID)
           k == conman.count + 1
       IN  conman' = [r[1] EXCEPT !.socks[r[2]] = k, !.conns[r[2]] = k, !.count = k,
                                  !.dups = IF nodeID = k THEN @ ELSE @ + 1]
    /\ UNCHANGED <<svars, mutex, call, ops, gor, pvars, model, clk, fdc, db, pick>>

\* A node that has not connected before, or the first node once more.
NextConMan == \E nodeID \in {1, conman.count + 1} : AddConnection(nodeID)

\* ----------------------------------------------------------------- fdcache
\* Number of Open, Close and ReadAt calls in one behaviour.
MaxFdCalls == 5
\* The names opened: files that exist and can be read.
FdNames == {"foo", "bar"}

\* The package after init(): no readFile, the lock free, the reaper asleep.
\* file[h] is the h-th readFile made: its name, its usage, whether its
\* os.File is closed, and how many Open calls returned it and how many Close
\* calls were made on it.  res is what the last call returned.
NoReadFiles ==
    [readFiles |-> EmptyMap, file |-> <<>>, lock |-> "free", calls |-> 0,
     res |-> [op |-> "none", h |-> 0, ok |-> TRUE, usage |-> 0]]

\* fdcache.Open(name), the whole call: the lock is held from the first
\* statement to the return.
fdOpen(c, name) ==
    IF Has(c.readFiles, name)
    THEN LET h == c.readFiles[name]
         IN  [c EXCEPT !.file[h].usage = @ + 1, !.file[h].opens = @ + 1,
                       !.res = [op |-> "Open", h |-> h, ok |-> TRUE,
                                usage |-> c.file[h].usage + 1]]
    ELSE LET h == Len(c.file) + 1
             rf == [name |-> name, usage |-> 1, closed |-> FALSE, opens |-> 1, closes |-> 0]
         IN  [c EXCEPT !.file = Append(@, rf), !.readFiles = Put(@, name, h),
                       !.res = [op |-> "Open", h |-> h, ok |-> TRUE, usage |-> 1]]

\* readFile.Close on readFile h.
fdClose(c, h) ==
    [c EXCEPT !.file[h].usage = @ - 1, !.file[h].closes = @ + 1,
              !.res = [op |-> "Close", h |-> h, ok |-> TRUE, usage |-> c.file[h].usage - 1]]

\* ReadAt on readFile h, the promoted os.File.ReadAt: it fails when the
\* os.File has been closed.
fdReadAt(c, h) ==
    [c EXCEPT !.res = [op |-> "ReadAt", h |-> h, ok |-> ~c.file[h].closed,
                       usage |-> c.file[h].usage]]

\* The loop body of the reaper over readFiles.
reap(c) ==
    LET idle == {n \in DOMAIN c.readFiles : c.file[c.readFiles[n]].usage = 0}
    IN  [c EXCEPT !.file = [h \in DOMAIN c.file |->
                               IF c.file[h].name \in idle /\ c.readFiles[c.file[h].name] = h
                               THEN [c.file[h] EXCEPT !.closed = TRUE] ELSE c.file[h]],
                  !.readFiles = [n \in (DOMAIN c.readFiles) \ idle |-> c.readFiles[n]]]

FdFrame == UNCHANGED <<svars, mutex, call, ops, gor, pvars, model, clk, conman, db, pick>>

\* A caller opens name.
FdOpen(name) ==
    /\ fdc.calls < MaxFdCalls
    /\ fdc.lock = "free"
    /\ fdc' = [fdOpen(fdc, name) EXCEPT !.calls = @ + 1]
    /\ FdFrame

\* A caller closes a handle it holds: one Open returned it and it has not
\* been closed since.
FdClose(h) ==
    /\ fdc.calls < MaxFdCalls
    /\ fdc.lock = "free"
    /\ h \in DOMAIN fdc.file
    /\ fdc.file[h].closes < fdc.file[h].opens
    /\ fdc' = [fdClose(fdc, h) EXCEPT !.calls = @ + 1]
    /\ FdFrame

\* A caller reads through a handle that an Open returned; ReadAt takes no
\* lock.
FdReadAt(h) ==
    /\ fdc.calls < MaxFdCalls
    /\ h \in DOMAIN fdc.file
    /\ fdc' = [fdReadAt(fdc, h) EXCEPT !.calls = @ + 1]
    /\ FdFrame

\* The reaper goroutine wakes up: readFilesLock.Lock()
ReaperLock ==
    /\ fdc.lock = "free"
    /\ fdc' = [fdc EXCEPT !.lock = "reaper"]
    /\ FdFrame

\* The reaper closes and forgets the readFiles of usage zero and unlocks.
ReaperSweep ==
    /\ fdc.lock = "reaper"
    /\ fdc' = [reap(fdc) EXCEPT !.lock = "free"]
    /\ FdFrame

NextFd ==
    \/ \E name \in FdNames : FdOpen(name)
    \/ \E h \in 1..MaxFdCalls : FdClose(h)
    \/ \E h \in 1..MaxFdCalls : FdReadAt(h)
    \/ ReaperLock
    \/ ReaperSweep

\* ---------------------------------------------------------------------- db
\* The largest sequence number of a file entry before the repair.
MaxSeq == 2
\* The local files of the folder, in key order, and a name no file has.
DbNameSeq == <<"a", "b">>
DbNames == {"a", "b"}
Nonexisting == "nonexisting"
\* The sequence numbers a sequence entry can be under before the repair.
SeqKeys == 1..(MaxSeq + 2)

\* What a read in a read-write transaction sees: the database as it was
\* when the transaction began, or that with the writes of the transaction.
\* The backend is not part of the source; both are modelled.
Isolations == {"snapshot", "own-writes"}

\* No database yet.
NoDb ==
    [phase |-> "none", files |-> EmptyMap, seqs |-> EmptyMap, meta |-> 0, fixed |-> 0,
     iso |-> "snapshot"]

\* recalcMeta: the local sequence of the metadata is the largest Sequence
\* of the local file entries.
RECURSIVE LargestSeq(_, _)
LargestSeq(fs, i) ==
    IF i > Len(DbNameSeq) THEN 0
    ELSE LET rest == LargestSeq(fs, i + 1)
             n == DbNameSeq[i]
         IN  IF Has(fs, n) /\ fs[n] > rest THEN fs[n] ELSE rest

\* The first loop of repairSequenceGCLocked, from the i-th file on: a file
\* whose sequence entry is missing or points at another file gets the next
\* local sequence number and a sequence entry under it.  was is the
\* database at the start of the transaction.
RECURSIVE repairFiles(_, _, _)
repairFiles(d, was, i) ==
    IF i > Len(DbNameSeq) THEN d
    ELSE LET n == DbNameSeq[i]
             seen == IF d.iso = "snapshot" THEN was.seqs ELSE d.seqs
         IN  IF ~Has(was.files, n) THEN repairFiles(d, was, i + 1)
             ELSE IF Has(seen, was.files[n]) /\ seen[was.files[n]] = n
             THEN repairFiles(d, was, i + 1)
             ELSE LET seq == d.meta + 1
                  IN  repairFiles([d EXCEPT !.meta = seq, !.fixed = @ + 1,
                                            !.seqs = Put(@, seq, n),
                                            !.files = Put(@, n, seq)], was, i + 1)

\* The second loop, over the sequence entries `over` that the iterator has
\* yet to return: an entry whose file is missing or has another sequence
\* number is deleted.  files is what getFileTrunc reads.
RECURSIVE repairEntries(_, _, _, _)
repairEntries(d, over, entries, fs) ==
    IF over = {} THEN d
    ELSE LET k == CHOOSE x \in over : \A y \in over : x <= y
             n == entries[k]
         IN  IF Has(fs, n) /\ fs[n] = k
             THEN repairEntries(d, over \ {k}, entries, fs)
             ELSE repairEntries([d EXCEPT !.fixed = @ + 1, !.seqs = Del(@, k)],
                                over \ {k}, entries, fs)

\* Lowlevel.repairSequenceGCLocked(folder, meta) and the commit.
repairSequenceGCLocked(d) ==
    LET d1 == repairFiles(d, d, 1)
        seen == IF d.iso = "snapshot" THEN d ELSE d1
    IN  [repairEntries(d1, DOMAIN seen.seqs, seen.seqs, seen.files)
            EXCEPT !.phase = "repaired"]

\* The maps from some of the keys K to values of V.
PartialMaps(K, V) == UNION {[S -> V] : S \in SUBSET K}

DbFrame == UNCHANGED <<svars, mutex, call, ops, gor, pvars, model, clk, conman, fdc, pick>>

\* A folder with file entries fs and sequence entries sq, as a crash or an
\* older version left them, on a backend of the given isolation.
NewDb(fs, sq, iso) ==
    /\ db.phase = "none"
    /\ db' = [NoDb EXCEPT !.phase = "made", !.files = fs, !.seqs = sq, !.iso = iso]
    /\ DbFrame

\* Lowlevel.getMetaAndCheck(folder): recalcMeta and then the repair.
GetMetaAndCheck ==
    /\ db.phase = "made"
    /\ db' = repairSequenceGCLocked([db EXCEPT !.meta = LargestSeq(db.files, 1)])
    /\ DbFrame

NextDb ==
    \/ \E fs \in PartialMaps(DbNames, 1..MaxSeq),
          sq \in PartialMaps(SeqKeys, DbNames \cup {Nonexisting}),
          iso \in Isolations : NewDb(fs, sq, iso)
    \/ GetMetaAndCheck

\* --------------------------------------------------------- leastBusyNode
\* The largest outstanding count of a node in the calls below.
MaxUsage == 2
\* No call yet.
NoPick ==
    [op |-> "none", m |-> [k \in NodeKeys |-> 0], availability |-> 0, cm |-> {},
     node |-> NoNode, requests |-> <<>>, outstanding |-> 0]

\* puller.handleRequestBlock(b) for a block of file "a" with the given
\* activity map, availability of the file and connected nodes, and no
\* request in flight: the node chosen and what was requested.
PickNode(m, availability, cm) ==
    /\ pick.op = "none"
    /\ LET f == PFile("a", NoRef, 0, <<Block(0, 1)>>)
           b == [file |-> f, copy |-> <<>>, block |-> Block(0, 1), last |-> TRUE]
           p0 == [ThePuller EXCEPT
                     !.oustandingPerNode = m, !.requests = <<>>,
                     !.openFiles = Put(EmptyMap, "a",
                                       [ZeroOpen EXCEPT !.availability = availability])]
           p1 == handleRequestBlock(p0, b, cm)
       IN  pick' = [op |-> "leastBusyNode", m |-> m, availability |-> availability,
                    cm |-> cm, node |-> leastBusyNode(m, availability, cm).node,
                    requests |-> p1.requests,
                    outstanding |-> p1.openFiles["a"].outstanding]
    /\ UNCHANGED <<svars, mutex, call, ops, gor, pvars, model, clk, conman, fdc, db>>

NextPick ==
    \E m \in [NodeKeys -> 0..MaxUsage], availability \in 0..7, cm \in SUBSET {"A", "B"} :
        PickNode(m, availability, cm)

\* The other packages before their first call.
OthersIdle ==
    /\ model = NewModel
    /\ clk = NoClocks
    /\ conman = NewConMan
    /\ fdc = NoReadFiles
    /\ db = NoDb
    /\ pick = NoPick

\* ------------------------------------------------- file-set specification
Init ==
    /\ files = EmptyMap
    /\ remoteKey = [p \in Peers |-> EmptyMap]
    /\ made = {}
    /\ changes = [p \in Peers |-> 0]
    /\ globalAvailability = EmptyMap
    /\ globalKey = EmptyMap
    /\ heap = EmptyMap
    /\ mutex = "unlocked"
    /\ call = [op |-> "NewSet", id |-> LocalID, in |-> <<>>, len |-> 0, same |-> FALSE,
               panic |-> FALSE]
    /\ ops = 0
    /\ gor = NoCalls
    /\ OthersIdle
    /\ PullerIdle

Next ==
    \/ \E id \in Callers, in \in InLists : Replace(id, in)
    \/ \E in \in InLists, ts \in [Names -> Times] : ReplaceWithDelete(LocalID, in, ts)
    \/ \E id \in Callers, in \in InLists : Update(id, in)
    \/ \E n \in Names : Publish(n)

Spec == Init /\ [][Next]_vars

\* Replace and Update with lists of two files as well: two names, and one
\* name in two versions (the slice type lets one name appear twice).
LongLists ==
    {<<InFile("a", <<1, 0>>), InFile("b", <<1, 0>>)>>,
     <<InFile("a", <<1, 0>>), InFile("a", <<1, 1>>)>>}

NextLists ==
    \/ \E id \in Callers, in \in InLists \cup LongLists : Replace(id, in)
    \/ \E id \in Callers, in \in InLists \cup LongLists : Update(id, in)

SpecLists == Init /\ [][NextLists]_vars

\* --------------------------------------------------- peer index out of range
\* The largest peer index: remoteKey and changes are arrays of 64.
MaxID == 63
\* Peer indexes above the largest one.
BadIDs == {MaxID + 1, MaxID + 2}

\* panic(...) of a call that holds the mutex or not: nothing is written.
RangePanic(op, id, in, held) ==
    /\ ops < MaxOps
    /\ held => mutex = "unlocked"
    /\ mutex' = IF held THEN "locked" ELSE mutex
    /\ Called(op, id, in, FALSE, TRUE)
    /\ ops' = ops + 1
    /\ UNCHANGED <<files, remoteKey, made, changes, globalAvailability, globalKey, heap,
                   gor, pvars, ovars>>

\* Set.Replace with any uint: `if id > 63 { panic(...) }` comes before
\* m.Lock().
ReplaceAny(id, in) ==
    IF id > MaxID THEN RangePanic("Replace", id, in, FALSE) ELSE Replace(id, in)

\* Set.ReplaceWithDelete with any uint: the same check before m.Lock().
ReplaceWithDeleteAny(id, in, ts) ==
    IF id > MaxID THEN RangePanic("ReplaceWithDelete", id, in, FALSE)
    ELSE ReplaceWithDelete(id, in, ts)

\* Set.Update with any uint: there is no check; m.Lock() and then
\* m.remoteKey[cid] of m.update, which panics on an index above 63.
UpdateAny(id, in) ==
    IF id > MaxID THEN RangePanic("Update", id, in, TRUE) ELSE Update(id, in)

NextRange ==
    \/ \E id \in {LocalID} \cup BadIDs, in \in InLists : ReplaceAny(id, in)
    \/ \E id \in {LocalID} \cup BadIDs, in \in InLists, ts \in [Names -> Times] :
          ReplaceWithDeleteAny(id, in, ts)
    \/ \E id \in {LocalID} \cup BadIDs, in \in InLists : UpdateAny(id, in)

SpecRange == Init /\ [][NextRange]_vars

\* ------------------------------------------------------- concurrent calls
\* One goroutine makes mutating calls and another makes reading calls on the
\* same set.  Every method locks the mutex of the set before it touches a
\* field and unlocks it when it is done; the steps in between are the
\* statements of the method.
\* Number of mutating calls in one behaviour.
MaxCalls == 2
Mutators == {"Replace", "ReplaceWithDelete", "Update"}
Readers == {"Need", "Have", "Global", "Get", "GetGlobal", "Availability"}

\* A Lock that does not wait for the mutex.
Lock_NoWait(mu) == TRUE

\* m.Lock() returns: the mutex is free.
Lock(mu) == mu = "unlocked"

\* A record as its reader sees it: with the vector of its Version slice.
Deref(s, f) == [f EXCEPT !.Version = Ver(s, @)]

\* What the reading method kind returns on set s.
Result(s, kind, id, n) ==
    CASE kind = "Need" -> {Deref(s, f) : f \in Need(s, id)}
      [] kind = "Have" -> {Deref(s, f) : f \in Have(s, id)}
      [] kind = "Global" -> {Deref(s, GetGlobal(s, g)) : g \in DOMAIN s.globalKey}
      [] kind = "Get" -> Deref(s, Get(s, id, n))
      [] kind = "GetGlobal" -> Deref(s, GetGlobal(s, n))
      [] kind = "Availability" -> Availability(s, n)

\* The body of the mutating method op run on set s without interruption.
WholeCall(op, s, id, fs, ts) ==
    LET run == Len(fs) = 0 \/ ~equals(s, id, fs)
        d == addDeleted(s, id, FileNames(fs), fs, 1, ts)
    IN  CASE op = "Replace" -> IF run THEN replace(s, id, fs) ELSE s
          [] op = "ReplaceWithDelete" ->
                IF ~run THEN s ELSE IF d.panic THEN d.set ELSE replace(d.set, id, d.fs)
          [] op = "Update" ->
                IF id \notin s.made /\ fs # <<>> THEN s ELSE update(s, id, fs)

SetUnchanged == UNCHANGED <<files, remoteKey, made, globalAvailability, globalKey, heap>>

\* The mutating goroutine calls op(id, fs), fs built from `in`.
CallStart(op, id, in, ts) ==
    /\ gor.w.pc = "idle"
    /\ ops < MaxCalls
    /\ op = "ReplaceWithDelete" => id = LocalID
    /\ \A n \in Names :
          (op # "ReplaceWithDelete" \/ n \in FileNames(in) \/ ~Has(remoteKey[LocalID], n))
              => ts[n] = 0
    /\ LET a == Alloc(heap, in, <<>>)
       IN  /\ heap' = a[1]
           /\ gor' = [gor EXCEPT !.w = [pc |-> "lock", op |-> op, id |-> id, in |-> in,
                                        fs |-> a[2], ts |-> ts]]
    /\ ops' = ops + 1
    /\ UNCHANGED <<files, remoteKey, made, globalAvailability, globalKey, changes,
                   mutex, call, pvars, ovars>>

\* m.Lock() in the mutating method.
CallLock ==
    /\ gor.w.pc = "lock"
    /\ Lock(mutex)
    /\ mutex' = "locked"
    /\ gor' = [gor EXCEPT !.w = [pc |-> "locked", op |-> @.op, id |-> @.id, in |-> @.in,
                                 fs |-> @.fs, ts |-> @.ts,
                                 same |-> equals(TheSet, @.id, @.fs),
                                 pre |-> TheSet,
                                 post |-> WholeCall(@.op, TheSet, @.id, @.fs, @.ts)]]
    /\ SetUnchanged
    /\ UNCHANGED <<changes, call, ops, pvars, ovars>>

\* Replace and ReplaceWithDelete: the test of the list, m.changes[id]++ and
\* the loop over the local keys.  Update has no such part.
CallPrepare ==
    /\ gor.w.pc = "locked"
    /\ LET w == gor.w
           run == Len(w.fs) = 0 \/ ~w.same
           d == addDeleted(TheSet, w.id, FileNames(w.fs), w.fs, 1, w.ts)
       IN  IF w.op = "Update"
           THEN /\ gor' = [gor EXCEPT !.w.pc = "fill"]
                /\ SetUnchanged
                /\ UNCHANGED <<changes, call>>
           ELSE IF ~run
           THEN /\ gor' = [gor EXCEPT !.w.pc = "unlock"]
                /\ SetUnchanged
                /\ UNCHANGED <<changes, call>>
           ELSE IF w.op = "Replace"
           THEN /\ gor' = [gor EXCEPT !.w.pc = "clear"]
                /\ changes' = changesInc(changes, w.id)
                /\ SetUnchanged
                /\ UNCHANGED call
           ELSE IF d.panic
           THEN /\ gor' = [gor EXCEPT !.w.pc = "panicked"]
                /\ changes' = changesInc(changes, w.id)
                /\ Install(d.set)
                /\ Called(w.op, w.id, w.in, w.same, TRUE)
           ELSE /\ gor' = [gor EXCEPT !.w.pc = "clear", !.w.fs = d.fs]
                /\ changes' = changesInc(changes, w.id)
                /\ Install(d.set)
                /\ UNCHANGED call
    /\ UNCHANGED <<mutex, ops, pvars, ovars>>

\* Set.replace: the usage of the peer's keys released, its map made anew.
CallClear ==
    /\ gor.w.pc = "clear"
    /\ Install(releaseAndClear(TheSet, gor.w.id))
    /\ gor' = [gor EXCEPT !.w.pc = "recalc"]
    /\ UNCHANGED <<changes, mutex, call, ops, pvars, ovars>>

\* Set.replace: the global view recalculated from the peer maps.
CallRecalc ==
    /\ gor.w.pc = "recalc"
    /\ Install(recalculate(TheSet))
    /\ gor' = [gor EXCEPT !.w.pc = "fill"]
    /\ UNCHANGED <<changes, mutex, call, ops, pvars, ovars>>

\* Set.update with the list of the call; Update then counts the change.
\* Storing into a map that was never made panics with the mutex held.
CallFill ==
    /\ gor.w.pc = "fill"
    /\ LET w == gor.w
       IN  IF w.id \notin made /\ w.fs # <<>>
           THEN /\ gor' = [gor EXCEPT !.w.pc = "panicked"]
                /\ SetUnchanged
                /\ UNCHANGED changes
                /\ Called(w.op, w.id, w.in, w.same, TRUE)
           ELSE /\ gor' = [gor EXCEPT !.w.pc = "unlock"]
                /\ Install(update(TheSet, w.id, w.fs))
                /\ changes' = IF w.op = "Update" THEN changesInc(changes, w.id)
                              ELSE changes
                /\ UNCHANGED call
    /\ UNCHANGED <<mutex, ops, pvars, ovars>>

\* m.Unlock() in the mutating method, and its return.
CallUnlock ==
    /\ gor.w.pc = "unlock"
    /\ mutex' = "unlocked"
    /\ Install(Collect(TheSet))
    /\ Called(gor.w.op, gor.w.id, gor.w.in, gor.w.same, FALSE)
    /\ gor' = [gor EXCEPT !.w = [pc |-> "idle"]]
    /\ UNCHANGED <<changes, ops, pvars, ovars>>

\* The reading goroutine calls the method kind for peer id or name n.
ReadStart(kind, id, n) ==
    /\ gor.r.pc = "idle"
    /\ kind \in {"Global", "GetGlobal", "Availability"} => id = LocalID
    /\ kind \in {"Need", "Have", "Global"} => n = NameSeq[1]
    /\ gor' = [gor EXCEPT !.r = [pc |-> "lock", kind |-> kind, id |-> id, n |-> n]]
    /\ SetUnchanged
    /\ UNCHANGED <<changes, mutex, call, ops, pvars, ovars>>

\* m.Lock() in the reading method.
ReadLock ==
    /\ gor.r.pc = "lock"
    /\ Lock(mutex)
    /\ mutex' = "locked"
    /\ gor' = [gor EXCEPT !.r.pc = "locked"]
    /\ SetUnchanged
    /\ UNCHANGED <<changes, call, ops, pvars, ovars>>

\* The body of the reading method: seen is what it returns, whole what it
\* returns on the set as it is between mutating calls (before the call in
\* progress, if there is one, and after it).
ReadBody ==
    /\ gor.r.pc = "locked"
    /\ LET r == gor.r
           w == gor.w
       IN  gor' = [gor EXCEPT !.r =
                      [pc |-> "read", kind |-> r.kind, id |-> r.id, n |-> r.n,
                       seen |-> Result(TheSet, r.kind, r.id, r.n),
                       whole |-> IF w.pc \in {"idle", "lock"}
                                 THEN {Result(TheSet, r.kind, r.id, r.n)}
                                 ELSE {Result(w.pre, r.kind, r.id, r.n),
                                       Result(w.post, r.kind, r.id, r.n)}]]
    /\ SetUnchanged
    /\ UNCHANGED <<changes, mutex, call, ops, pvars, ovars>>

\* m.Unlock() in the reading method, and its return.
ReadUnlock ==
    /\ gor.r.pc = "read"
    /\ mutex' = "unlocked"
    /\ gor' = [gor EXCEPT !.r = [pc |-> "idle"]]
    /\ SetUnchanged
    /\ UNCHANGED <<changes, call, ops, pvars, ovars>>

NextConc ==
    \/ \E op \in Mutators, id \in Callers, in \in InLists, ts \in [Names -> Times] :
          CallStart(op, id, in, ts)
    \/ CallLock
    \/ CallPrepare
    \/ CallClear
    \/ CallRecalc
    \/ CallFill
    \/ CallUnlock
    \/ \E kind \in Readers, id \in Callers, n \in Names : ReadStart(kind, id, n)
    \/ ReadLock
    \/ ReadBody
    \/ ReadUnlock

SpecConc == Init /\ [][NextConc]_vars

SpecModel == Init /\ [][NextModel]_vars

SpecVc == Init /\ [][NextVc]_vars

SpecConMan == Init /\ [][NextConMan]_vars

SpecFd == Init /\ [][NextFd]_vars

SpecDb == Init /\ [][NextDb]_vars

SpecPick == Init /\ [][NextPick]_vars

\* --------------------------------------------------- puller specification
\* newPuller on the file set of one of the scenarios: every slot is in the
\* channel, nothing is queued, no file is open.
InitPull ==
    \E w \in Worlds, fb \in 0..MaxFaults :
        /\ world = [name |-> w.name, slots |-> w.slots]
        /\ files = WorldSet(w).files
        /\ remoteKey = WorldSet(w).remoteKey
        /\ made = WorldSet(w).made
        /\ globalAvailability = WorldSet(w).globalAvailability
        /\ globalKey = WorldSet(w).globalKey
        /\ heap = WorldSet(w).heap
        /\ changes = [p \in Peers |-> 1]
        /\ mutex = "unlocked"
        /\ call = [op |-> "NewSet", id |-> LocalID, in |-> <<>>, len |-> 0, same |-> FALSE,
               panic |-> FALSE]
        /\ ops = 0
        /\ gor = NoCalls
        /\ OthersIdle
        /\ bq = <<>>
        /\ filler = [pc |-> "slot", b |-> NoItem]
        /\ requestSlots = w.slots
        /\ requests = <<>>
        /\ oustandingPerNode = [n \in NodeKeys |-> 0]
        /\ openFiles = EmptyMap
        /\ temp = EmptyMap
        /\ dest = w.disk
        /\ connected = {"A", "B"}
        /\ faults = fb
        /\ ticks = 0
        /\ ev = NoEvent

NextPull ==
    \/ FillerSlot
    \/ FillerGet
    \/ \E fault \in BlockFaults : HandleBlock(fault)
    \/ \E i \in 1..Len(requests), outcome \in Outcomes, fault \in ResultFaults :
          HandleRequestResult(i, outcome, fault)
    \/ \E sq \in Orders(NeedNames(TheSet, LocalID)) : NeedTick(sq)
    \/ \E node \in connected : Disconnect(node)

\* The select of puller.run takes every case that stays ready, the filler
\* goroutine runs, and every request returns.
FairPull ==
    /\ WF_vars(FillerSlot)
    /\ WF_vars(FillerGet)
    /\ WF_vars(\E fault \in BlockFaults : HandleBlock(fault))
    /\ WF_vars(\E i \in 1..Len(requests), outcome \in Outcomes, fault \in ResultFaults :
                  HandleRequestResult(i, outcome, fault))
    /\ WF_vars(\E sq \in Orders(NeedNames(TheSet, LocalID)) : NeedTick(sq))

SpecPull == InitPull /\ [][NextPull]_vars /\ FairPull

\* ------------------------------------------------ scenario S6, no failures
\* Two request slots, two needed files of three blocks each, held by nodes
\* that stay connected and answer every request with the data asked for; no
\* local I/O operation fails.
InitS6 ==
    /\ InitPull
    /\ world.name = "S6"
    /\ faults = 0

NextS6 ==
    \/ FillerSlot
    \/ FillerGet
    \/ HandleBlock("none")
    \/ \E i \in 1..Len(requests) : HandleRequestResult(i, "ok", "none")
    \/ \E sq \in Orders(NeedNames(TheSet, LocalID)) : NeedTick(sq)

FairS6 ==
    /\ WF_vars(FillerSlot)
    /\ WF_vars(FillerGet)
    /\ WF_vars(HandleBlock("none"))
    /\ WF_vars(\E i \in 1..Len(requests) : HandleRequestResult(i, "ok", "none"))
    /\ WF_vars(\E sq \in Orders(NeedNames(TheSet, LocalID)) : NeedTick(sq))

SpecS6 == InitS6 /\ [][NextS6]_vars /\ FairS6

\* ====================================================== file set: properties
\* The states a caller can find the set in: the mutex is free.  A call that
\* panicked never unlocks it.
Unlocked == mutex = "unlocked"

\* The vector peer p holds for name n, <<>> when it holds none.
PeerVer(p, n) == Ver(TheSet, RemoteRef(TheSet, p, n))
GlobalVer(n) == Ver(TheSet, globalKey[n])

\* C1: in every state reached by Replace, ReplaceWithDelete and Update calls,
\* every name of the global view has a non-zero availability, and every peer
\* whose bit is set holds exactly the global version of that name.
AvailabilityIsExact ==
    Unlocked =>
        \A n \in DOMAIN globalKey :
            /\ globalAvailability[n] # 0
            /\ \A i \in Peers :
                  BitSet(globalAvailability[n], i) =>
                      Has(remoteKey[i], n) /\ PeerVer(i, n) = GlobalVer(n)

\* C2: in every state a caller can find the set in, no peer holds, for a
\* name of the global view, a version that compares Greater than the global
\* version of that name.
GlobalIsMaximal ==
    Unlocked =>
        \A n \in DOMAIN globalKey : \A p \in Peers :
            Has(remoteKey[p], n) => Compare(PeerVer(p, n), GlobalVer(n)) # Greater

\* C2 witness: an Update delivered a version that is Greater than the one
\* another peer holds, and the global view followed it.
GlobalIsMaximal_Witness ==
    /\ Unlocked
    /\ call.op = "Update"
    /\ \E n \in DOMAIN globalKey : \E p \in Peers :
          /\ Has(remoteKey[p], n)
          /\ Compare(PeerVer(p, n), GlobalVer(n)) = Lesser
          /\ Has(remoteKey[call.id], n)
          /\ PeerVer(call.id, n) = GlobalVer(n)

\* The names Need(p) has to return: the global names whose version is Greater
\* than p's, an absent entry counting as Lesser.
Wanted(p) == {n \in DOMAIN globalKey : Compare(GlobalVer(n), PeerVer(p, n)) = Greater}

\* C3: Need(p) returns exactly the global records whose version compares
\* Greater than p's version of the same name (absent counts as Lesser), and
\* no other record: one record per wanted name, each carrying that name and
\* the global version.
NeedReturnsGlobalRecords ==
    Unlocked =>
        \A p \in Peers :
            /\ \A n \in Wanted(p) : \E f \in Need(TheSet, p) :
                  f.Name = n /\ Ver(TheSet, f.Version) = GlobalVer(n)
            /\ \A f \in Need(TheSet, p) :
                  f.Name \in Wanted(p) /\ Ver(TheSet, f.Version) = GlobalVer(f.Name)

\* The number of peer maps, plus one for the global view, that hold the
\* fingerprint ks.
References(ks) ==
    Cardinality({p \in Peers : \E n \in DOMAIN remoteKey[p] :
                    KeyString(TheSet, n, remoteKey[p][n]) = ks})
        + (IF \E n \in DOMAIN globalKey : KeyString(TheSet, n, globalKey[n]) = ks
           THEN 1 ELSE 0)

\* C9: the usage count of every stored entry equals the number of peer maps
\* plus the global view that reference its fingerprint, and an entry is
\* stored only while that number is above zero.
UsageCountsReferences ==
    Unlocked =>
        \A ks \in DOMAIN files :
            files[ks].Usage = References(ks) /\ References(ks) > 0

\* The maps of the set, and the vectors their keys denote.
SetMaps == <<files, remoteKey, globalKey, globalAvailability, heap>>

GlobalView(s) ==
    [n \in DOMAIN s.globalKey |-> <<Ver(s, s.globalKey[n]), AvOf(s, n)>>]

\* The contents of the map of peer p as a file list.
PeerList(p) ==
    LET held == SelectSeq(NameSeq, LAMBDA n : Has(remoteKey[p], n))
    IN  [i \in 1..Len(held) |-> InFile(held[i], PeerVer(p, held[i]))]

\* The set after NewSet and one Replace for every peer, in the order of the
\* peers, each with the contents the map of that peer has now: a sequence of
\* calls that ends with the peer maps of the current state.
Rebuilt ==
    Replaced(Replaced(Replaced(NewSet, 0, PeerList(0)), 1, PeerList(1)), 2, PeerList(2))

\* C11: the global view is a function of the peer maps alone.  Any two call
\* sequences that end with the same peer maps end with the same global view;
\* so the global view of every state is the one reached by the sequence of
\* one Replace per peer that ends with the same peer maps.
GlobalIsFunctionOfPeerMaps ==
    Unlocked =>
        /\ \A p \in Peers : \A n \in Names :
              Ver(Rebuilt, RemoteRef(Rebuilt, p, n)) = PeerVer(p, n)
        /\ GlobalView(TheSet) = GlobalView(Rebuilt)

\* The global version of name n and the version peer p holds for n in set s,
\* <<>> when there is none.
GlobalVerOf(s, n) == IF Has(s.globalKey, n) THEN Ver(s, s.globalKey[n]) ELSE <<>>
PeerVerOf(s, p, n) == Ver(s, RemoteRef(s, p, n))

\* A Replace or Update of peer p returns that delivered one file, of a name n
\* that p did not hold, in a version Conflicting with the global version of
\* n, which is the version of every peer that holds n.
ConflictingDelivery ==
    /\ call'.op \in {"Replace", "Update"}
    /\ ~call'.panic
    /\ call'.len = 1
    /\ LET n == call'.in[1].Name
           p == call'.id
       IN  /\ ~Has(remoteKey[p], n)
           /\ Has(globalKey, n)
           /\ Compare(call'.in[1].Version, GlobalVer(n)) = Conflicting
           /\ \A q \in Peers :
                 /\ Has(remoteKey[q], n) <=> BitSet(AvOf(TheSet, n), q)
                 /\ Has(remoteKey[q], n) => PeerVer(q, n) = GlobalVer(n)

NeedEmptyIffSameAsGlobal ==
    Unlocked =>
        \A p \in Peers :
            (Need(TheSet, p) = {}) <=>
                \A n \in DOMAIN globalKey :
                    Has(remoteKey[p], n) /\ PeerVer(p, n) = GlobalVer(n)

\* C13 as the code has it: Need(p) is empty exactly when p holds, for every
\* name of the global view, a version that the global version is not Greater
\* than: the global version itself or one Conflicting with it.
NeedEmptyIffNotOlder ==
    Unlocked =>
        \A p \in Peers :
            (Need(TheSet, p) = {}) <=>
                \A n \in DOMAIN globalKey :
                    /\ Has(remoteKey[p], n)
                    /\ Compare(PeerVer(p, n), GlobalVer(n)) \in {Equal, Conflicting}

\* C13 witness: Need is empty for a peer that holds a version Conflicting
\* with the global one, another peer holding the global version.
NeedEmptyIffNotOlder_Witness ==
    /\ Unlocked
    /\ \E p \in Peers, q \in Peers, n \in DOMAIN globalKey :
          /\ Need(TheSet, p) = {}
          /\ Has(remoteKey[p], n)
          /\ Has(remoteKey[q], n)
          /\ PeerVer(q, n) = GlobalVer(n)
          /\ Compare(PeerVer(p, n), GlobalVer(n)) = Conflicting

\* C14: every name in the map of any peer is in the global view.
PeerNamesAreGlobal ==
    \A p \in Peers : \A n \in DOMAIN remoteKey[p] : Has(globalKey, n)

\* C14 witness: two peers hold different names, after a Replace that
\* recalculated the global view, which has both names.
PeerNamesAreGlobal_Witness ==
    /\ call.op = "Replace"
    /\ call.id = LocalID
    /\ DOMAIN remoteKey[LocalID] = {"a"}
    /\ DOMAIN remoteKey[1] = {"b"}
    /\ DOMAIN globalKey = {"a", "b"}

\* The call that returns is the second of two calls in a row of method op
\* for the same peer with the same list, the first of which returned.
SecondOfTwo(op) ==
    /\ call.op = op
    /\ ~call.panic
    /\ call'.op = op
    /\ call'.id = call.id
    /\ call'.in = call.in
    /\ ops' = ops + 1

\* What the file set holds, by value: every peer's version of every name, the
\* global version and availability of every name, and the usage count of
\* every stored record.
SetContents(s) ==
    <<[p \in Peers |-> [n \in Names |-> PeerVerOf(s, p, n)]],
      GlobalView(s),
      [ks \in DOMAIN s.files |-> s.files[ks].Usage]>>

\* C15: a second Replace(p, fs) right after a Replace(p, fs), fs empty or
\* not, leaves the peer maps, the global view, the availability and the
\* stored records with their usage counts as the first call left them.
ReplaceTwiceIsReplaceOnce ==
    [][SecondOfTwo("Replace") => SetContents(TheSet') = SetContents(TheSet)]_vars

\* C16: a second Update(p, fs) right after an Update(p, fs) leaves the peer
\* maps, the global view, the availability and the usage counts as the first
\* call left them.
UpdateTwiceIsUpdateOnce ==
    [][SecondOfTwo("Update") => SetContents(TheSet') = SetContents(TheSet)]_vars

\* Replace(p, []) returns right after a Replace(p, fs) returned.
ResetAfterReplace ==
    /\ call.op = "Replace"
    /\ ~call.panic
    /\ call'.op = "Replace"
    /\ ~call'.panic
    /\ call'.id = call.id
    /\ call'.in = <<>>
    /\ ops' = ops + 1

\* In set s peer p holds nothing and has no availability bit, and every
\* global entry is a version some other peer holds, none of them holding a
\* Greater one, with exactly the bits of the peers that hold it.
ResetTo(s, p) ==
    /\ DOMAIN s.remoteKey[p] = {}
    /\ \A n \in DOMAIN s.globalKey :
          /\ ~BitSet(AvOf(s, n), p)
          /\ \E q \in Peers \ {p} :
                Has(s.remoteKey[q], n) /\ PeerVerOf(s, q, n) = GlobalVerOf(s, n)
          /\ \A q \in Peers :
                Has(s.remoteKey[q], n)
                    => Compare(PeerVerOf(s, q, n), GlobalVerOf(s, n)) # Greater
          /\ \A q \in Peers :
                BitSet(AvOf(s, n), q)
                    <=> (Has(s.remoteKey[q], n)
                            /\ PeerVerOf(s, q, n) = GlobalVerOf(s, n))

\* The names of the records the block store of s holds.
StoredNames(s) == {ks[1] : ks \in DOMAIN s.files}

\* The names only peer p holds.
OnlyHeldBy(p) ==
    {n \in DOMAIN remoteKey[p] : \A q \in Peers \ {p} : ~Has(remoteKey[q], n)}

\* C17: after Replace(p, fs) followed by Replace(p, []), p's map is empty, no
\* availability has p's bit, every remaining global entry is the newest
\* version among the other peers with exactly their bits, and the names only
\* p held are gone from the global view and from the block store.
ResetRemovesPeer ==
    [][ResetAfterReplace
          => /\ ResetTo(TheSet', call.id)
             /\ \A n \in OnlyHeldBy(call.id) :
                   ~Has(globalKey', n) /\ n \notin StoredNames(TheSet')]_vars

\* The record Get(LocalID, n) returns in set s, with the vector its Version
\* denotes.
LocalRecord(s, n) == [Get(s, LocalID, n) EXCEPT !.Version = Ver(s, @)]

\* n is a name the local map holds and the list of the call does not.
DeletedBy(in, n) == Has(remoteKey[LocalID], n) /\ n \notin FileNames(in)

\* In set s the local record of n is a tombstone whose version is prev
\* incremented at the local index, at some wall-clock reading (which is never
\* above the counter that results).
Tombstone(s, n, prev) ==
    /\ LocalRecord(s, n).Name = n
    /\ LocalRecord(s, n).Flags = FlagDeleted
    /\ LocalRecord(s, n).Size = 0
    /\ LocalRecord(s, n).Blocks = <<>>
    /\ prev # <<>>
    /\ \E t \in 0..LocalRecord(s, n).Version[LocalID + 1] :
          LocalRecord(s, n).Version = Inc(prev, LocalID, t)
    /\ Compare(LocalRecord(s, n).Version, prev) = Greater

\* C18: ReplaceWithDelete(local, files) returns, and leaves for every name
\* that was in the local map and is absent from files a record with flags
\* Deleted, size 0, no blocks and the previous version incremented at the
\* local index (hence Greater than the previous one), and for every record of
\* files that record as given.
ReplaceWithDeleteLeavesTombstones ==
    [][call'.op = "ReplaceWithDelete"
          => /\ ~call'.panic
             /\ \A n \in Names :
                   DeletedBy(call'.in, n)
                       => Tombstone(TheSet', n, PeerVer(LocalID, n))
             /\ \A i \in 1..Len(call'.in) :
                   LocalRecord(TheSet', call'.in[i].Name) = call'.in[i]]_vars

\* The map of peer p in set s, by value.
PeerMap(s, p) == [n \in DOMAIN s.remoteKey[p] |-> PeerVerOf(s, p, n)]

\* A Replace, ReplaceWithDelete or Update call for peer p takes place.
CallFor(p) == ops' = ops + 1 /\ call'.id = p

\* C19: Changes(p) never decreases, it strictly increases across every
\* Replace, ReplaceWithDelete and Update that alters p's map, and a call for
\* a different peer leaves it as it is.
ChangesCountsAlterations ==
    [][\A p \in Peers :
          /\ changes'[p] >= changes[p]
          /\ (ops' = ops + 1 /\ PeerMap(TheSet', p) # PeerMap(TheSet, p))
                => changes'[p] > changes[p]
          /\ (\E q \in Peers \ {p} : CallFor(q)) => changes'[p] = changes[p]]_vars

\* C20: calls on one set are atomic with respect to each other.  A reading
\* call never runs its body while a mutating call is between its Lock and its
\* Unlock; what it returns is what it returns on the set before or after
\* that call, never on a map that is cleared and not yet refilled or on a
\* global view that is partly recalculated; and what the steps of a mutating
\* call leave is what its body leaves when nothing runs in between.
CallsAreAtomic ==
    /\ gor.r.pc \in {"locked", "read"} => gor.w.pc \in {"idle", "lock"}
    /\ gor.r.pc = "read" => gor.r.seen \in gor.r.whole
    /\ gor.w.pc = "unlock" => SetContents(TheSet) = SetContents(gor.w.post)

\* C20 witness: a Replace for a peer that held a file has cleared the peer's
\* map and has not refilled it yet, the global view still has the file, and a
\* reading call is waiting for the mutex.
CallsAreAtomic_Witness ==
    /\ gor.w.pc = "recalc"
    /\ gor.w.op = "Replace"
    /\ gor.w.fs # <<>>
    /\ gor.w.pre.remoteKey[gor.w.id] # EmptyMap
    /\ remoteKey[gor.w.id] = EmptyMap
    /\ globalKey # EmptyMap
    /\ gor.r.pc = "lock"
    /\ gor.r.kind = "Need"
    /\ mutex = "locked"

\* The keys the files maps of model2 refer to.
ModelKeys == UNION {{model.files[p][n] : n \in DOMAIN model.files[p]} : p \in Peers}

\* C21: after any sequence of set and add calls the block store of model2
\* holds an entry for every fingerprint that a peer map refers to and no
\* entry for a fingerprint that no peer map refers to.
BlocksAreTheReferencedKeys ==
    ~model.panicked => DOMAIN model.blocks = ModelKeys

\* The positions at which Clocks a and b differ.
Differing(a, b) == {i \in 1..Len(a) : a[i] # b[i]}

\* C22: for Clocks a and b of equal length, a.CompareTo(b) is Equal iff all
\* positions are equal, Lesser iff they differ and every differing position
\* is smaller in a, Greater iff they differ and every differing position is
\* larger in a, and Conflicting otherwise.
CompareToIsTheOrder ==
    clk.op = "CompareTo" =>
        LET d == Differing(clk.a, clk.b)
        IN  /\ clk.r = Equal <=> d = {}
            /\ clk.r = Lesser <=> (d # {} /\ \A i \in d : clk.a[i] < clk.b[i])
            /\ clk.r = Greater <=> (d # {} /\ \A i \in d : clk.a[i] > clk.b[i])
            /\ clk.r = Conflicting
                  <=> ((\E i \in d : clk.a[i] < clk.b[i]) /\ (\E i \in d : clk.a[i] > clk.b[i]))

\* C22 witness: two Clocks of three counters, larger at the first position,
\* equal at the second and smaller at the third, compare Conflicting.
CompareToIsTheOrder_Witness ==
    /\ clk.op = "CompareTo"
    /\ Len(clk.a) = 3
    /\ clk.a[1] > clk.b[1]
    /\ clk.a[2] = clk.b[2]
    /\ clk.a[3] < clk.b[3]
    /\ clk.r = Conflicting

\* C23: for every Clock v, index i and wall-clock reading, v.IncCopy(i)
\* compares Greater than v and differs from v at position i only.
IncCopyIsGreater ==
    clk.op = "IncCopy" =>
        clk.r = Greater /\ Differing(clk.b, clk.a) = {clk.i + 1}

\* C25: Replace, ReplaceWithDelete and Update called with a peer index above
\* 63 fail loudly, leave every map and counter as it was and do not leave
\* the lock held.
OutOfRangeCallFails ==
    [][(ops' = ops + 1 /\ call'.id > MaxID) =>
          /\ call'.panic
          /\ TheSet' = TheSet
          /\ changes' = changes
          /\ mutex' = mutex]_vars

RECURSIVE HeldFrom(_, _)
HeldFrom(n, h) ==
    IF h > Len(fdc.file) THEN 0
    ELSE (IF fdc.file[h].name = n THEN fdc.file[h].opens - fdc.file[h].closes ELSE 0)
             + HeldFrom(n, h + 1)

\* C27: the usage of the shared handle of a name is the number of Open calls
\* for the name less the number of Close calls, a handle reads while that
\* number is above zero, and once every handle is closed ReadAt fails.
UsageIsOpensLessCloses ==
    /\ \A n \in DOMAIN fdc.readFiles : fdc.file[fdc.readFiles[n]].usage = HeldFrom(n, 1)
    /\ fdc.res.op = "ReadAt" => (fdc.res.ok <=> fdc.res.usage > 0)

\* C28: after the repair every local file entry has a sequence entry under
\* its own sequence number that points back to it, and every sequence entry
\* points to a local file whose sequence number is the number of the entry.
RepairedIndexIsConsistent ==
    db.phase = "repaired" =>
        /\ \A n \in DOMAIN db.files :
              Has(db.seqs, db.files[n]) /\ db.seqs[db.files[n]] = n
        /\ \A k \in DOMAIN db.seqs :
              Has(db.files, db.seqs[k]) /\ db.files[db.seqs[k]] = k

\* C29: in every state a caller can find the set in, for every name of the
\* global view, the availability bit of every peer whose map holds exactly
\* the global version of the name is set.
AvailabilityIsComplete ==
    Unlocked =>
        \A n \in DOMAIN globalKey :
            \A i \in Peers :
                (Has(remoteKey[i], n) /\ PeerVer(i, n) = GlobalVer(n)) =>
                    BitSet(AvOf(TheSet, n), i)

\* C29 witness: after an Update two peers hold the global version of a name
\* and both bits are set.
AvailabilityIsComplete_Witness ==
    /\ Unlocked
    /\ call.op = "Update"
    /\ \E n \in DOMAIN globalKey :
          /\ \A i \in Callers : Has(remoteKey[i], n) /\ PeerVer(i, n) = GlobalVer(n)
          /\ \A i \in Callers : BitSet(globalAvailability[n], i)

\* The connected nodes other than the local one whose bit is set in the
\* availability of the call.
Eligible ==
    {x \in pick.cm : NodeId[x] # LocalID /\ BitSet(pick.availability, NodeId[x])}

\* The position of node x in cm.Names().
PositionOf(x) == CHOOSE i \in 1..Len(NodeSeq) : NodeSeq[i] = x

Rescan == call'.op = "ReplaceWithDelete" /\ call'.id = LocalID /\ ops' = ops + 1

PeerRecord(s, p, n) == [Get(s, p, n) EXCEPT !.Version = Ver(s, @)]

\* C40: a ReplaceWithDelete(local, files) call leaves the map of every other
\* peer as it was, and with it the name, version, flags, size and blocks of
\* every record the reading calls return for that peer.
RescanLeavesPeerRecords ==
    [][Rescan
          => \A p \in Peers \ {LocalID} :
                /\ PeerMap(TheSet', p) = PeerMap(TheSet, p)
                /\ \A n \in DOMAIN remoteKey[p] :
                      PeerRecord(TheSet', p, n) = PeerRecord(TheSet, p, n)]_vars

\* ======================================================== puller: properties
\* File n is published: the local peer map holds the global fingerprint of n
\* and the destination file has the block hashes of the global record.
Published(n) ==
    /\ Has(remoteKey[LocalID], n)
    /\ Has(globalKey, n)
    /\ PeerVer(LocalID, n) = GlobalVer(n)
    /\ DestHashes(dest, n) = HashesOf(GetGlobal(TheSet, n).Blocks)

\* C4: whenever the puller publishes a file f, on the fetch-completion path or
\* on the no-fetch path, the local peer map afterwards holds the fingerprint
\* of f under f's name and the block hashes of the destination file are those
\* of f's block list.
PublishedFileIsInPlace ==
    ev.kind = "publish" =>
        /\ Has(remoteKey[LocalID], ev.name)
        /\ PeerVer(LocalID, ev.name) = Ver(TheSet, ev.file.Version)
        /\ DestHashes(dest, ev.name) = HashesOf(ev.file.Blocks)

\* C5 as claimed: a file is renamed into place and published with
\* Update(local, [f]) only after its temp file has been hashed again and
\* every hash matched the expected block list.
PublishOnlyAfterVerification ==
    ev.kind = "publish" => ev.verified

\* C5 as the code has it: on the fetch-completion path the temp file is
\* renamed and the file published only after the temp file was hashed again
\* and every hash matched, so that the destination then has the expected
\* hashes; on the no-fetch path the file is published with no hashing.
FetchPublishIsVerified ==
    /\ (ev.kind = "publish" /\ ev.path = "fetch") =>
          /\ ev.verified
          /\ DestHashes(dest, ev.name) = HashesOf(ev.file.Blocks)
          /\ PeerVer(LocalID, ev.name) = Ver(TheSet, ev.file.Version)
    /\ (ev.kind = "publish" /\ ev.path = "empty") => ~ev.verified

\* C5 witness: a file of several fetched blocks has just been published.
FetchPublishIsVerified_Witness ==
    /\ ev.kind = "publish"
    /\ ev.path = "fetch"
    /\ Len(ev.file.Blocks) = 3
    /\ Has(dest, ev.name)

\* C24: when the temp file, hashed again, differs from the expected block
\* list in the number of blocks or in a hash, the temp file is removed, the
\* destination is left as it was, the local peer map is not updated and the
\* file leaves the open-file table.
MismatchAbandonsFile ==
    [][(ev'.kind = "mismatch" /\ Len(requests') < Len(requests)) =>
          /\ Has(openFiles, ev'.name) /\ ~Has(openFiles', ev'.name)
          /\ ~Has(temp', ev'.name)
          /\ dest' = dest
          /\ PeerMap(TheSet', LocalID) = PeerMap(TheSet, LocalID)
          /\ changes'[LocalID] = changes[LocalID]]_vars

\* C24 witness: a file of three blocks was abandoned on a mismatch while an
\* older file of its name is in place; the local peer map holds the older
\* version.
MismatchAbandonsFile_Witness ==
    /\ ev.kind = "mismatch"
    /\ Len(ev.file.Blocks) = 3
    /\ ~Has(openFiles, ev.name)
    /\ ~Has(temp, ev.name)
    /\ Has(dest, ev.name)
    /\ Has(remoteKey[LocalID], ev.name)
    /\ PeerVer(LocalID, ev.name) # Ver(TheSet, ev.file.Version)

\* The sum of the outstanding counts of the open files of names S.
RECURSIVE outstandingSum(_)
outstandingSum(S) ==
    IF S = {} THEN 0
    ELSE LET n == CHOOSE x \in S : TRUE
         IN  openFiles[n].outstanding + outstandingSum(S \ {n})

\* C6: in every state the outstanding counts of the entries of the open-file
\* table add up to at most the number of request slots.
OutstandingWithinSlots ==
    outstandingSum(DOMAIN openFiles) <= world.slots

\* C7: with two request slots and two needed files of three remote blocks
\* each, held by nodes that answer every request, there are never more than
\* two requests in flight, and under fair scheduling both files end up
\* published.
TwoSlotsSixBlocks ==
    /\ [](Len(requests) <= 2)
    /\ <>[](\A n \in Names : Published(n))

\* C7 witness: both files of the scenario are published and nothing is left
\* to do.
TwoSlotsSixBlocks_Witness ==
    /\ world.name = "S6"
    /\ world.slots = 2
    /\ \A n \in Names : Published(n) /\ Len(GetGlobal(TheSet, n).Blocks) = 3
    /\ requests = <<>>
    /\ openFiles = EmptyMap

\* C8: every file that enters the open-file table leaves it again.
OpenFilesLeave ==
    \A n \in Names : Has(openFiles, n) ~> ~Has(openFiles, n)

\* The requests dispatched to node whose results the scheduler has not
\* received yet.
RequestsTo(node) == Cardinality({i \in 1..Len(requests) : requests[i].node = node})

\* C31: in every state the outstanding count of each connected or formerly
\* connected node is the number of requests dispatched to it whose results
\* have not been received, and is not negative.
OutstandingPerNodeIsInFlight ==
    \A i \in 1..Len(NodeSeq) :
        /\ oustandingPerNode[NodeSeq[i]] = RequestsTo(NodeSeq[i])
        /\ oustandingPerNode[NodeSeq[i]] >= 0

\* C31 witness: the result of a request has been received after its file had
\* left the open-file table, and another request to a node is in flight.
OutstandingPerNodeIsInFlight_Witness ==
    /\ ev.result.outcome # ""
    /\ ~Has(openFiles, ev.result.name)
    /\ ev.kind = "none"
    /\ Len(requests) = 1
    /\ oustandingPerNode[requests[1].node] = 1
    /\ oustandingPerNode[ev.result.node] = RequestsTo(ev.result.node)

\* C32: when the result of a request that returned an error is received for
\* a file that is open and has not failed, the request slot is released, the
\* count of the node goes down by one, and the file has its sticky error set
\* or has left the open-file table, unpublished.
RequestErrorFailsFile ==
    [][(/\ ev'.result.outcome = "err"
        /\ Has(openFiles, ev'.result.name)
        /\ ~openFiles[ev'.result.name].err)
          => /\ requestSlots' = requestSlots + 1
             /\ oustandingPerNode'[ev'.result.node]
                    = oustandingPerNode[ev'.result.node] - 1
             /\ ev'.kind # "publish"
             /\ Has(openFiles', ev'.result.name)
                    => openFiles'[ev'.result.name].err]_vars

\* The step handles the copy item the filler holds, for a file that has not
\* failed, and no operation of the copy fails.
CopyItemHandled ==
    /\ filler.pc = "send"
    /\ filler'.pc = "slot"
    /\ Len(filler.b.copy) > 0
    /\ Has(openFiles, filler.b.file.Name) => ~openFiles[filler.b.file.Name].err
    /\ Has(openFiles', filler.b.file.Name)
    /\ ~openFiles'[filler.b.file.Name].err

\* C33: a copy item leaves every block of the needed file whose hash is in
\* the existing destination file in the temp file, at the offset the block
\* has in the needed file.
CopyWritesAtTargetOffset ==
    [][CopyItemHandled
          => \A i \in 1..Len(filler.b.file.Blocks) :
                (\E j \in 1..Len(DestHashes(dest, filler.b.file.Name)) :
                    DestHashes(dest, filler.b.file.Name)[j] = filler.b.file.Blocks[i].Hash)
                  => /\ Has(temp'[filler.b.file.Name], filler.b.file.Blocks[i].Offset)
                     /\ temp'[filler.b.file.Name][filler.b.file.Blocks[i].Offset]
                            = filler.b.file.Blocks[i].Hash]_vars

\* The open-file table of the given value holds a failed entry for name n.
Failed(of, n) == Has(of, n) /\ of[n].err

\* C34: an item of a file that has failed only gives its slot back, nothing
\* is copied, requested or published for it; and once the item flagged last
\* is handled no failed entry of the file is left in the open-file table,
\* also when the failure happened on that very item.
FailedFileOnlyReleases ==
    [][(filler.pc = "send" /\ filler'.pc = "slot")
          => /\ Failed(openFiles, filler.b.file.Name)
                    => /\ requestSlots' = requestSlots + 1
                       /\ requests' = requests
                       /\ oustandingPerNode' = oustandingPerNode
                       /\ temp' = temp
                       /\ dest' = dest
                       /\ changes' = changes
                       /\ ev'.kind = "none"
             /\ filler.b.last => ~Failed(openFiles', filler.b.file.Name)]_vars

\* C35: when the puller has handled a needed file that carries the Deleted
\* flag, the temp file and the destination file are gone, the file is not in
\* the open-file table, the local peer map holds the tombstone and
\* Need(local) does not return the file.
DeletedFileIsRemoved ==
    (ev.kind = "publish" /\ ev.file.Flags = FlagDeleted)
        => /\ ~Has(temp, ev.name)
           /\ ~Has(dest, ev.name)
           /\ ~Has(openFiles, ev.name)
           /\ Has(remoteKey[LocalID], ev.name)
           /\ PeerVer(LocalID, ev.name) = Ver(TheSet, ev.file.Version)
           /\ Get(TheSet, LocalID, ev.name).Flags = FlagDeleted
           /\ ev.name \notin NeedNames(TheSet, LocalID)

\* Work of an earlier enqueue of the file of name n is still queued, held by
\* the filler or in flight.
Pending(n) ==
    \/ \E i \in 1..Len(bq) : bq[i].file.Name = n
    \/ filler.pc = "send" /\ filler.b.file.Name = n
    \/ \E i \in 1..Len(requests) : requests[i].file.Name = n

\* C36: a need tick enqueues files only when the open-file table is empty,
\* and never a file of which work items or requests of an earlier enqueue
\* are still queued or in flight.
EnqueueOncePerNeed ==
    [][ticks' = ticks + 1
          => /\ openFiles = EmptyMap
             /\ \A i \in (Len(bq) + 1)..Len(bq') : ~Pending(bq'[i].file.Name)]_vars

\* The slots taken out of the channel and not put back: the one the filler
\* holds for the item it is getting or handing over, and one for each
\* request in flight.
HeldSlots == (IF filler.pc \in {"get", "send"} THEN 1 ELSE 0) + Len(requests)

\* C37: in every state the slots in the channel and the slots held add up to
\* the N slots the puller was made with, so that at most N requests are in
\* flight and the channel, of capacity N, has room for every slot returned.
SlotsAreConserved ==
    /\ requestSlots + HeldSlots = world.slots
    /\ requestSlots >= 0
    /\ requestSlots <= world.slots
    /\ Len(requests) <= world.slots

\* C37 witness: both slots are out, one for a request in flight and one
\* with the filler, which hands over an item of a file that has failed.
SlotsAreConserved_Witness ==
    /\ world.slots = 2
    /\ requestSlots = 0
    /\ Len(requests) = 1
    /\ filler.pc = "send"
    /\ Failed(openFiles, filler.b.file.Name)

\* The requests in flight for the file of name n.
RequestsFor(n) == Cardinality({i \in 1..Len(requests) : requests[i].file.Name = n})

\* C38: the outstanding count of every entry of the open-file table is not
\* negative and is the number of requests issued for the file whose results
\* have not been handled.
OutstandingIsInFlight ==
    \A n \in DOMAIN openFiles :
        /\ openFiles[n].outstanding >= 0
        /\ openFiles[n].outstanding = RequestsFor(n)

====
